---- MODULE Spec2Model ----
(***************************************************************************)
(* The containerd client of the wasm shim                                  *)
(* (crates/containerd-shim-wasm/src/sandbox/containerd/client.rs):         *)
(* read_content, delete_content, lease, save_content and the orchestration *)
(* load_modules, run by several Client instances against one containerd    *)
(* daemon.  Every RPC round trip is one step of the calling client; the     *)
(* daemon serves each request atomically.                                  *)
(*                                                                         *)
(* Strings are sequences of tokens, so that format!() is concatenation.    *)
(* Byte strings are sequences of small naturals.  Maps (labels, the        *)
(* content store) are sets of <<key, value>> pairs with unique keys.       *)
(***************************************************************************)
EXTENDS Integers, Sequences, FiniteSets, TLC

\* ------------------------------------------------------------------ bounds
MaxLen == 2
MaxOps == 2

Clients == {1, 2}

\* -------------------------------------------------------- strings and bytes
HexDigits == <<"0", "1", "2", "3", "4", "5", "6", "7",
               "8", "9", "a", "b", "c", "d", "e", "f">>

RECURSIVE ToHex(_)
ToHex(n) ==
    IF n < 16 THEN <<HexDigits[n + 1]>>
    ELSE ToHex(n \div 16) \o <<HexDigits[(n % 16) + 1]>>

\* Decimal rendering of the small integers that occur in messages.
Dec(n) ==
    IF n < 0 THEN <<"-">> \o ToHex(-n)
    ELSE IF n < 10 THEN ToHex(n)
    ELSE ToHex(n \div 10) \o ToHex(n % 10)

\* A collision-free stand-in for SHA-256: the positional value of the bytes
\* behind a leading 1 (bytes are below 16).
RECURSIVE Hash(_)
Hash(b) ==
    IF b = <<>> THEN 1
    ELSE Hash(SubSeq(b, 1, Len(b) - 1)) * 16 + b[Len(b)]

\* sha256::digest(data): the hex string of the hash.
digest(data) == ToHex(Hash(data))

\* Byte strings of exactly / at most n bytes over the byte values vals.
RECURSIVE BytesOfLen(_, _)
BytesOfLen(vals, n) ==
    IF n = 0 THEN {<<>>}
    ELSE {b \o <<v>> : b \in BytesOfLen(vals, n - 1), v \in vals}

BytesUpTo(vals, n) == UNION {BytesOfLen(vals, k) : k \in 0..n}

\* data[offset as usize..]: the suffix from offset; defined for 0 <= offset <= len.
SliceFrom(data, offset) == SubSeq(data, offset + 1, Len(data))

\* ------------------------------------------------------------------- maps
MapGet(m, k) == (CHOOSE p \in m : p[1] = k)[2]
MapHas(m, k) == \E p \in m : p[1] = k
MapInsert(m, k, v) == {p \in m : p[1] # k} \cup {<<k, v>>}
MapRemove(m, k) == {p \in m : p[1] # k}
MapKeys(m) == {p[1] : p \in m}

\* ------------------------------------------------------------ label names
PRECOMPILE_PREFIX == <<"runwasi.io/precompiled">>

\* A label with the engine's name and identity in the other order.
precompile_label_Swapped(name, version) ==
    PRECOMPILE_PREFIX \o <<"/">> \o version \o <<"/">> \o name

precompile_label(name, version) ==
    PRECOMPILE_PREFIX \o <<"/">> \o name \o <<"/">> \o version

\* ------------------------------------------------------------------ errors
NoError == [variant |-> "none", msg |-> <<>>]

\* ShimError::Containerd(String)
ShimErrorContainerd(msg) == [variant |-> "Containerd", msg |-> msg]

\* tonic::Status and its Display form, as used by err.to_string().
Status(code, message) == [code |-> code, message |-> message]
StatusToString(st) == <<"status: ", st.code, ", message: ", st.message>>


\* ----------------------------------------------------------------- values
\* The byte values of directly written data, and the data a caller may write:
\* the byte strings 0 1 0 1 ... of every length up to MaxLen.
DataBytes == {0, 1}
Pattern(n) == [i \in 1..n |-> (i - 1) % 2]
DataSet == {Pattern(n) : n \in 0..MaxLen}

\* The labels (cache keys) a direct caller of save_content uses, as in
\* test_save_content: precompile_label("test", ...).
TestLabels ==
    {precompile_label(<<"test">>, <<"hasdfh">>),
     precompile_label(<<"test">>, <<"other">>)}

\* Result<T> of a client call, with every payload field present.
NoResult ==
    [op |-> "none", arg |-> <<>>, ok |-> FALSE, digest |-> <<>>,
     bytes |-> <<>>, layers |-> <<>>,
     platform |-> [architecture |-> "", os |-> ""], err |-> NoError]

OkDigest(op, d) == [NoResult EXCEPT !.op = op, !.ok = TRUE, !.digest = d]
OkBytes(op, b) == [NoResult EXCEPT !.op = op, !.ok = TRUE, !.bytes = b]
OkUnit(op) == [NoResult EXCEPT !.op = op, !.ok = TRUE]
Err(op, e) == [NoResult EXCEPT !.op = op, !.err = e]

\* The error every failed RPC is mapped to:
\* .map_err(|err| ShimError::Containerd(err.to_string())).
RpcError(st) == ShimErrorContainerd(StatusToString(st))

Unavailable == Status("Unavailable", "transport error")
NotFound == Status("NotFound", "not found")
AlreadyExists == Status("AlreadyExists", "already exists")
OutOfRange == Status("OutOfRange", "write offset")
FailedPrecondition == Status("FailedPrecondition", "unexpected commit")

\* --------------------------------------------------------- read_content
\* The response stream of a read: the content cut into one or two chunks,
\* possibly ended early by a failure.  An item is a chunk or a status.
Chunk(b) == [ok |-> TRUE, data |-> b, status |-> Status("Ok", "")]
Failure(st) == [ok |-> FALSE, data |-> <<>>, status |-> st]

Chunkings(b) ==
    {<<Chunk(b)>>}
    \cup {<<Chunk(SubSeq(b, 1, k)), Chunk(SubSeq(b, k + 1, Len(b)))>> :
             k \in 1..(Len(b) - 1)}
    \cup (IF b = <<>> THEN {<<>>} ELSE {})

ReadStreams(b) ==
    Chunkings(b)
    \cup UNION {{SubSeq(s, 1, k) \o <<Failure(Unavailable)>> :
                    k \in 0..Len(s)} : s \in Chunkings(b)}

\* .map_ok(|msg| msg.data).try_concat(): the chunks in arrival order, or the
\* first failure and none of the bytes.
RECURSIVE ConcatData(_)
ConcatData(s) ==
    IF s = <<>> THEN <<>> ELSE s[1].data \o ConcatData(Tail(s))

\* A read that keeps only the first message of the stream.
TryConcat_FirstChunk(s) ==
    IF s # <<>> /\ ~s[1].ok
    THEN Err("read_content", RpcError(s[1].status))
    ELSE OkBytes("read_content", IF s = <<>> THEN <<>> ELSE s[1].data)

\* A read that returns the bytes received before the failure.
TryConcat_Partial(s) ==
    LET good == SelectSeq(s, LAMBDA m : m.ok)
    IN  OkBytes("read_content", ConcatData(good))

TryConcat(s) ==
    IF \E i \in 1..Len(s) : ~s[i].ok
    THEN LET i == CHOOSE j \in 1..Len(s) :
                      ~s[j].ok /\ \A k \in 1..(j - 1) : s[k].ok
         IN  Err("read_content", RpcError(s[i].status))
    ELSE OkBytes("read_content", ConcatData(s))

\* Every course read_content(d) can take against the content store st: the
\* request fails (.read(req).await is an Err, lines 79-82), or the stream is
\* opened and its messages are concatenated (lines 83-87).
ReadCourses(st, d) ==
    {[opened |-> FALSE, stream |-> <<>>,
      res |-> Err("read_content", RpcError(x))] :
        x \in IF MapHas(st, d) THEN {Unavailable} ELSE {NotFound, Unavailable}}
    \cup (IF MapHas(st, d)
          THEN {[opened |-> TRUE, stream |-> s, res |-> TryConcat(s)] :
                   s \in ReadStreams(MapGet(st, d))}
          ELSE {})

\* Every outcome read_content(d) can have against the content store st.
read_content(st, d) == {x.res : x \in ReadCourses(st, d)}

\* --------------------------------------------------------- save_content
\* let expected = format!("sha256:{}", digest(data.clone()));
SaveExpected(data) == <<"sha256:">> \o digest(data)

\* let reference = format!("precompile-{}", label);
SaveReference(label) == <<"precompile-">> \o label

\* WriteContentRequest, every field present (..Default::default()).
StatRequest(ref, len, expected) ==
    [action |-> "Stat", ref |-> ref, total |-> len, offset |-> 0,
     expected |-> expected, labels |-> {}, data |-> <<>>]

\* A writer that sends the whole input again, whatever the daemon holds.
DataToWrite_Whole(data, offset) == data

\* let data_to_write = data[response.offset as usize..].to_vec();
DataToWrite(data, offset) == SliceFrom(data, offset)

\* The slice panics when the offset, cast to usize, is beyond the data.
SlicePanics(data, offset) == offset < 0 \/ offset > Len(data)

CommitRequest(data, offset, expected, label, original_digest) ==
    [action |-> "Commit", ref |-> <<>>, total |-> Len(data), offset |-> offset,
     expected |-> expected, labels |-> {<<label, original_digest>>},
     data |-> DataToWrite(data, offset)]

\* A validation that checks the byte count only.
ValidateCommit_NoDigestCheck(response, len, expected) ==
    IF response.offset # len
    THEN Err("save_content", ShimErrorContainerd(
             <<"failed to write all bytes, expected ">> \o Dec(len)
             \o <<" got ">> \o Dec(response.offset)))
    ELSE OkDigest("save_content", response.digest)

\* The validation of the commit response (lines 230-242).
ValidateCommit(response, len, expected) ==
    IF response.offset # len
    THEN Err("save_content", ShimErrorContainerd(
             <<"failed to write all bytes, expected ">> \o Dec(len)
             \o <<" got ">> \o Dec(response.offset)))
    ELSE IF response.digest # expected
    THEN Err("save_content", ShimErrorContainerd(
             <<"unexpected digest, expected ">> \o expected
             \o <<" got ">> \o response.digest))
    ELSE OkDigest("save_content", response.digest)

NoResponse(expected) ==
    ShimErrorContainerd(
        <<"no response received after write request for ">> \o expected)

\* ------------------------------------------------- the daemon's content writer
\* What the daemon holds after a commit request: the bytes already ingested
\* under the reference (truncated when the request restarts at 0) followed by
\* the first k bytes of the request's data.
IngestAfter(prior, req, k) ==
    (IF req.offset = 0 THEN <<>> ELSE prior) \o SubSeq(req.data, 1, k)

\* The daemon's own digest of the bytes it holds.
ContentDigest(b) == <<"sha256:">> \o digest(b)

WriteResponse(actual) ==
    [offset |-> Len(actual), digest |-> ContentDigest(actual)]

\* The daemon commits the ingested bytes when they are all there and hash to
\* the expected digest.
Commits(actual, req) ==
    Len(actual) = req.total /\ ContentDigest(actual) = req.expected


\* An offset out of range answered with an error value.
Panic_AsError(op) ==
    Err(op, ShimErrorContainerd(<<"write offset out of range">>))

\* A panic of the calling thread (the slice at line 196).
Panic(op) ==
    Err(op, [variant |-> "panic", msg |-> <<"range start index out of range">>])

\* The bytes the daemon may already hold under a reference when a writer is
\* opened for data: a prefix of the data (an interrupted write of the same
\* content), a prefix with its last byte changed (of other content), or
\* more bytes than the data has.
OtherByte(x) == (x + 1) % 16
Foreign(b) == SubSeq(b, 1, Len(b) - 1) \o <<OtherByte(b[Len(b)])>>

DaemonPriors(data) ==
    {SubSeq(data, 1, k) : k \in 0..Len(data)}
    \cup {Foreign(SubSeq(data, 1, k)) : k \in 1..Len(data)}
    \cup {data \o <<0>>}

\* Drop of the LeaseGuard: a best-effort revoke of the lease.  The daemon
\* deletes the lease, or the request fails and the lease stays.
Revoke(ls, lease_id, done) == IF done THEN ls \ {lease_id} ELSE ls

\* ------------------------------------------------------------- OCI images
MaxLayers == 3

None == [some |-> FALSE, value |-> <<>>]
Some(v) == [some |-> TRUE, value |-> v]

\* oci_spec::image::MediaType and media_type.to_string() (line 562).
MediaTypeOther(s) == [variant |-> "Other", text |-> s]
ImageLayer == [variant |-> "ImageLayer", text |-> ""]
ImageConfig == [variant |-> "ImageConfig", text |-> ""]

MediaTypeToString(m) ==
    CASE m.variant = "ImageLayer" -> "application/vnd.oci.image.layer.v1.tar"
      [] m.variant = "ImageConfig" -> "application/vnd.oci.image.config.v1+json"
      [] OTHER -> m.text

WASM_LAYER_MEDIA_TYPE ==
    "application/vnd.bytecodealliance.wasm.component.layer.v0+wasm"

\* A filter that lets every layer through.
is_supported_layer_Any(media_type, supported_layer_types) == TRUE

is_supported_layer(media_type, supported_layer_types) ==
    MediaTypeToString(media_type) \in supported_layer_types

Descriptor(media_type, d, size) ==
    [media_type |-> media_type, digest |-> d, size |-> size]
NoDescriptor == Descriptor(MediaTypeOther(""), <<>>, 0)

\* oci::WasmLayer { config, layer }
WasmLayer(config, layer) == [config |-> config, layer |-> layer]

\* The blobs of an image.  A config blob is <<12, a>> with a the architecture
\* (1 wasm, 2 amd64).  Layer j of an image is the blob <<j>>.  A manifest blob
\* is <<13, a, t1, .., tn>>: it names the config blob of architecture a and n
\* layers, layer j of media type tj (1 the wasm layer type, 2 a tar layer).
ArchCodes == {1, 2}
LayerCodes == {1, 2}
ConfigBytes(a) == <<12, a>>
LayerBytes(j) == <<j>>
ManifestBytes(a, types) == <<13, a>> \o types

LayerMediaType(t) ==
    IF t = 1 THEN MediaTypeOther(WASM_LAYER_MEDIA_TYPE) ELSE ImageLayer

\* ImageManifest::from_reader(manifest) (line 448) and whether it is Ok.
ManifestDecodes(b) ==
    /\ Len(b) >= 2
    /\ b[1] = 13
    /\ \A j \in 3..Len(b) : b[j] \in LayerCodes

ImageManifest_from_reader(b) ==
    [config |-> Descriptor(ImageConfig, ContentDigest(ConfigBytes(b[2])), 2),
     layers |-> [j \in 1..(Len(b) - 2) |->
                    Descriptor(LayerMediaType(b[j + 2]),
                               ContentDigest(LayerBytes(j)), 1)]]

NoManifest == [config |-> NoDescriptor, layers |-> <<>>]

\* serde_json::from_slice::<Platform>(image_config) (line 455).
PlatformDecodes(b) == Len(b) = 2 /\ b[1] = 12 /\ b[2] \in ArchCodes

Platform_from_slice(b) ==
    IF b[2] = 1 THEN [architecture |-> "wasm", os |-> "wasip1"]
    ELSE [architecture |-> "amd64", os |-> "linux"]

\* A gate that lets every architecture through.
IsWasm_Any(platform) == TRUE

\* let Arch::Wasm = platform.architecture() else { return ... }
IsWasm(platform) == platform.architecture = "wasm"

DecodeError == [variant |-> "Decode", msg |-> <<"invalid image content">>]

\* ------------------------------------------------------------ the engine
\* The Engine collaborator: name(), supported_layers_types(),
\* can_precompile() and precompile(layers).
Wasmtime ==
    [name |-> <<"wasmtime">>, supported_layers_types |-> {WASM_LAYER_MEDIA_TYPE},
     can_precompile |-> Some(<<"9f3c">>), tag |-> 14,
     builds |-> {<<>>}]
WasmtimeNext ==
    [name |-> <<"wasmtime">>, supported_layers_types |-> {WASM_LAYER_MEDIA_TYPE},
     can_precompile |-> Some(<<"c21e">>), tag |-> 11,
     builds |-> {<<>>}]
Wasmer ==
    [name |-> <<"wasmer">>, supported_layers_types |-> {WASM_LAYER_MEDIA_TYPE},
     can_precompile |-> Some(<<"9f3c">>), tag |-> 10,
     builds |-> {<<>>}]
Interpreter ==
    [name |-> <<"wamr">>, supported_layers_types |-> {WASM_LAYER_MEDIA_TYPE},
     can_precompile |-> None, tag |-> 15,
     builds |-> {<<>>}]
NoEngine ==
    [name |-> <<>>, supported_layers_types |-> {}, can_precompile |-> None,
     tag |-> 0, builds |-> {}]

\* An engine whose precompile is not reproducible: two calls for the same
\* layers may return different bytes.
Unreproducible ==
    [name |-> <<"wasmedge">>, supported_layers_types |-> {WASM_LAYER_MEDIA_TYPE},
     can_precompile |-> Some(<<"9f3c">>), tag |-> 9,
     builds |-> {<<>>, <<8>>}]
Engines == {Wasmtime, Interpreter}
PrecompilingEngines == {Wasmtime, WasmtimeNext, Wasmer}

RECURSIVE Flatten(_)
Flatten(layers) ==
    IF layers = <<>> THEN <<>> ELSE Head(layers) \o Flatten(Tail(layers))

\* engine.precompile(layers), when it succeeds: bytes that depend on the
\* engine and on the layers in their order.
Precompile(engine, layers) == <<engine.tag>> \o Flatten(layers)

\* Every result engine.precompile(layers) can have when it succeeds.
PrecompileOutputs(engine, layers) ==
    {Precompile(engine, layers) \o b : b \in engine.builds}

EngineError == [variant |-> "Engine", msg |-> <<"precompile failed">>]

\* A cache key made of the engine name alone.
PrecompileId_NameOnly(engine) ==
    IF engine.can_precompile.some
    THEN <<TRUE, precompile_label(engine.name, <<>>)>>
    ELSE <<FALSE, <<>>>>

\* let (can_precompile, precompile_id) = match engine.can_precompile() {..}
\* (lines 464-467), as the pair.
PrecompileId(engine) ==
    IF engine.can_precompile.some
    THEN <<TRUE, precompile_label(engine.name, engine.can_precompile.value)>>
    ELSE <<FALSE, <<>>>>

\* A match without the guard of its first arm.
CacheLabelled_NoGuard(labels, can_precompile, precompile_id) ==
    MapHas(labels, precompile_id)

\* match image.labels.get(&precompile_id) { Some(..) if can_precompile => ..
\* (lines 469-470): the arm that looks into the cache is taken.
CacheLabelled(labels, can_precompile, precompile_id) ==
    MapHas(labels, precompile_id) /\ can_precompile

\* manifest.layers().iter().filter(|x| is_supported_layer(..)) (lines 500-503)
SupportedLayers(manifest, engine) ==
    SelectSeq(manifest.layers,
              LAMBDA x : is_supported_layer(x.media_type,
                                            engine.supported_layers_types))

\* layers.into_iter().map(|module| WasmLayer {..}) (lines 546-552)
PairWithConfig(config, layers) ==
    [i \in 1..Len(layers) |-> WasmLayer(config, layers[i])]

\* A GC reference key with another suffix.
GC_REF_LABEL_Other == <<"containerd.io/gc.ref.precompile">>

GC_REF_LABEL == <<"containerd.io/gc.ref.content.precompile">>

\* --------------------------------------------------- the daemon's records
ImageName == <<"docker.io/library/hello:latest">>
ContainerIds == {<<"c1">>}
OtherImageName == <<"docker.io/library/world:latest">>
OtherContainerId == <<"c2">>
ContainerImage(id) == IF id = OtherContainerId THEN OtherImageName ELSE ImageName

NoTarget == [some |-> FALSE, digest |-> <<>>]
Target(d) == [some |-> TRUE, digest |-> d]
Image(name, target, labels) ==
    [name |-> name, target |-> target, labels |-> labels]
NoImage == Image(<<>>, NoTarget, {})

Info(d, labels) == [digest |-> d, labels |-> labels]
NoInfo == Info(<<>>, {})

NoWriteContent == [lease_id |-> <<>>, digest |-> <<>>]

\* An update request that names no field.
UpdateImageRequest_NoMask(image) == [image |-> image, update_mask |-> <<>>]

\* UpdateImageRequest { image, update_mask: FieldMask { paths: ["labels"] } }
\* (lines 321-326)
UpdateImageRequest(image) == [image |-> image, update_mask |-> <<"labels">>]

\* UpdateRequest { info, update_mask: FieldMask { paths: ["labels"] } }
\* (lines 275-280)
UpdateRequest(info) == [info |-> info, update_mask |-> <<"labels">>]

MaskNames(mask, path) == \E i \in 1..Len(mask) : mask[i] = path

\* The daemon's update of an image record: the fields the mask names are
\* taken from the request, every mutable field when the mask names none;
\* the name is the key of the record.
ImagesUpdate(record, req) ==
    [name |-> record.name,
     target |-> IF req.update_mask = <<>> \/ MaskNames(req.update_mask, "target")
                THEN req.image.target ELSE record.target,
     labels |-> IF req.update_mask = <<>> \/ MaskNames(req.update_mask, "labels")
                THEN req.image.labels ELSE record.labels]

\* The daemon's update of a content record: the labels are its one mutable
\* field.
ContentUpdate(labels, req) ==
    IF req.update_mask = <<>> \/ MaskNames(req.update_mask, "labels")
    THEN req.info.labels ELSE labels

\* The frame of a load_modules call, with every local present.
NoRun ==
    [container |-> <<>>, engine |-> NoEngine, container_image |-> <<>>,
     image |-> NoImage, labels_read |-> {}, image_digest |-> <<>>,
     manifest |-> NoManifest,
     platform |-> [architecture |-> "", os |-> ""],
     can_precompile |-> FALSE, precompile_id |-> <<>>,
     lookup |-> "none", stale |-> FALSE, layers |-> <<>>, fetched |-> <<>>,
     precompiled |-> <<>>, precompiled_content |-> NoWriteContent,
     image_content |-> NoInfo, ret |-> NoResult, why |-> "none",
     disturbed |-> FALSE, updated |-> NoImage]

OkLayers(layers, platform) ==
    [NoResult EXCEPT !.op = "load_modules", !.ok = TRUE, !.layers = layers,
                     !.platform = platform]

\* ------------------------------------------------------------------ state
VARIABLES
    store,          \* daemon: content store, pairs <<digest, bytes>>
    contentLabels,  \* daemon: labels of content records, <<digest, labels>>
    leases,         \* daemon: the ids of the leases that exist
    ingest,         \* daemon: per client, the bytes held by its open writer
    pc,             \* per client, the position in the running call
    sc,             \* per client, the frame of save_content
    guards,         \* per client, the WriteContent values the caller holds
    calls,          \* per client, the requests of the running call, in order
    last,           \* history: the call that the last step finished, with
                    \* its Result (NoLast after any other step)
    saved,          \* history: <<digest, data, label>> of the successful
                    \* save_content calls whose digest was not deleted since
    known,          \* history: every digest a save_content has returned
    nops,           \* number of client calls started
    images,         \* daemon: image records, pairs <<name, image>>
    lm,             \* per client, the frame of load_modules
    ntampers        \* number of contents removed behind the clients' back

vars ==
    <<store, contentLabels, leases, ingest, pc, sc, guards, calls, last,
      saved, known, nops, images, lm, ntampers>>

\* WriteContentResponse, and whether one has arrived.
NoResponseYet == [present |-> FALSE, offset |-> 0, digest |-> <<>>]
Received(r) == [present |-> TRUE, offset |-> r.offset, digest |-> r.digest]

\* The response to the stat: the offset the daemon holds.
StatReceived(offset) == Received([offset |-> offset, digest |-> <<>>])

\* mpsc::channel(1) (line 150): the requests the channel holds unsent.
ChannelCapacity == 1

NoFrame ==
    [data |-> <<>>, original_digest |-> <<>>, label |-> <<>>,
     expected |-> <<>>, reference |-> <<>>, lease_id |-> <<>>,
     chan |-> <<>>, offset |-> 0, stat |-> NoResponseYet,
     resp |-> NoResponseYet, wire |-> <<>>,
     ret |-> NoResult, why |-> "none", caller |-> "none", tx |-> FALSE]

NoLast ==
    [client |-> 0, res |-> NoResult, data |-> <<>>, label |-> <<>>,
     calls |-> <<>>, why |-> "none", held |-> FALSE, rewrite |-> FALSE,
     offset |-> 0, stat |-> NoResponseYet, resp |-> NoResponseYet,
     wire |-> <<>>, run |-> NoRun, opened |-> FALSE, stream |-> <<>>]

\* WriteContent { _lease: LeaseGuard { lease_id, .. }, digest }
WriteContent(lease_id, d) == [lease_id |-> lease_id, digest |-> d]

Call(kind, arg) == <<kind, arg>>

Init ==
    /\ store = {}
    /\ contentLabels = {}
    /\ leases = {}
    /\ ingest = [c \in Clients |-> <<>>]
    /\ pc = [c \in Clients |-> "idle"]
    /\ sc = [c \in Clients |-> NoFrame]
    /\ guards = [c \in Clients |-> {}]
    /\ calls = [c \in Clients |-> <<>>]
    /\ last = NoLast
    /\ saved = {}
    /\ known = {}
    /\ nops = 0
    /\ images = {}
    /\ lm = [c \in Clients |-> NoRun]
    /\ ntampers = 0

\* Some caller holds an unreleased guard of the lease.
GuardAlive(lease_id) ==
    \E c \in Clients :
       \/ \E g \in guards[c] : g.lease_id = lease_id
       \/ sc[c].lease_id = lease_id
       \/ lm[c].precompiled_content.lease_id = lease_id

\* ------------------------------------------------- return from save_content
\* save_content hands its Result to its caller; f is its frame and trace the
\* requests the call has made.  A direct caller keeps the WriteContent of a
\* success.
SaveReturns(c, f, res, trace, reason) ==
    /\ sc' = [sc EXCEPT ![c] = NoFrame]
    /\ saved' = IF res.ok
                THEN saved \cup {<<res.digest, f.data, f.label>>}
                ELSE saved
    /\ known' = IF res.ok THEN known \cup {res.digest} ELSE known
    /\ IF f.caller = "load_modules" /\ res.ok
       THEN \* let precompiled_content = self.save_content(..)?  (line 516)
            /\ lm' = [lm EXCEPT ![c].precompiled_content =
                                    WriteContent(f.lease_id, res.digest)]
            /\ pc' = [pc EXCEPT ![c] = "lm_update_image"]
            /\ calls' = [calls EXCEPT ![c] = trace]
            /\ last' = NoLast
            /\ UNCHANGED guards
       ELSE /\ last' = [client |-> c,
                        res |-> IF f.caller = "load_modules"
                                THEN [res EXCEPT !.op = "load_modules"]
                                ELSE res,
                        data |-> f.data,
                        label |-> f.label, calls |-> trace, why |-> reason,
                        held |-> pc[c] = "sc_lease" /\ GuardAlive(f.reference),
                        rewrite |-> <<f.expected, f.data, f.label>> \in saved,
                        offset |-> f.offset, stat |-> f.stat,
                        resp |-> f.resp, wire |-> f.wire,
                        run |-> lm[c], opened |-> FALSE, stream |-> <<>>]
            /\ lm' = [lm EXCEPT ![c] = NoRun]
            /\ calls' = [calls EXCEPT ![c] = <<>>]
            /\ pc' = [pc EXCEPT ![c] =
                         IF res.err.variant = "panic" THEN "panicked"
                         ELSE "idle"]
            /\ guards' = [guards EXCEPT ![c] =
                             IF res.ok
                             THEN @ \cup {WriteContent(f.lease_id, res.digest)}
                             ELSE @]

\* An error after the lease was acquired that reaches the caller with the
\* guard never dropped.
SaveFails_NoDrop(c, f, res, trace, reason) ==
    SaveReturns(c, f, res, trace, reason)

\* An error after the lease was acquired: the LeaseGuard local is dropped
\* before the error reaches the caller.
SaveFails(c, f, res, trace, reason) ==
    /\ sc' = [sc EXCEPT ![c] = [f EXCEPT !.ret = res, !.why = reason,
                                         !.tx = FALSE]]
    /\ pc' = [pc EXCEPT ![c] = "sc_drop"]
    /\ calls' = [calls EXCEPT ![c] = trace]
    /\ last' = NoLast
    /\ UNCHANGED <<guards, saved, known, lm>>

\* ---------------------------------------------------------- direct callers
\* client.save_content(data, original_digest, &label)   (lines 138-145)
CallSaveContent(c, data, original_digest, label) ==
    /\ pc[c] = "idle"
    /\ nops < MaxOps
    /\ nops' = nops + 1
    /\ sc' = [sc EXCEPT ![c] =
                 [NoFrame EXCEPT
                     !.data = data,
                     !.original_digest = original_digest,
                     !.label = label,
                     !.expected = SaveExpected(data),
                     !.reference = SaveReference(label),
                     !.caller = "api"]]
    /\ pc' = [pc EXCEPT ![c] = "sc_lease"]
    /\ calls' = [calls EXCEPT ![c] = <<>>]
    /\ last' = NoLast
    /\ UNCHANGED <<store, contentLabels, leases, ingest, guards, saved, known,
                   images, lm, ntampers>>

\* A save_content that goes on when the lease cannot be created.
SC_Lease_IgnoresError(c) ==
    /\ pc[c] = "sc_lease"
    /\ leases' = leases \cup {sc[c].reference}
    /\ sc' = [sc EXCEPT ![c].lease_id = sc[c].reference,
                        ![c].tx = TRUE,
                        ![c].chan = Append(@, StatRequest(
                            sc[c].reference, Len(sc[c].data), sc[c].expected))]
    /\ pc' = [pc EXCEPT ![c] = "sc_write"]
    /\ calls' = [calls EXCEPT ![c] =
                    Append(@, Call("leases.create", sc[c].reference))]
    /\ last' = NoLast
    /\ UNCHANGED <<guards, saved, known, lm, store, contentLabels, ingest, nops,
                   images, ntampers>>

\* A save_content that queues the commit request with the stat request,
\* before any response.
SC_Lease_QueuesBoth(c) ==
    /\ pc[c] = "sc_lease"
    /\ LET trace == Append(calls[c], Call("leases.create", sc[c].reference))
       IN  \/ \* the daemon refuses an id that exists
              /\ sc[c].reference \in leases
              /\ SaveReturns(c, sc[c], Err("save_content",
                             RpcError(AlreadyExists)), trace, "lease_exists")
              /\ UNCHANGED leases
           \/ \* the daemon creates the lease
              /\ sc[c].reference \notin leases
              /\ leases' = leases \cup {sc[c].reference}
              /\ sc' = [sc EXCEPT ![c].lease_id = sc[c].reference,
                                  ![c].tx = TRUE,
                                  ![c].chan = <<StatRequest(
                                      sc[c].reference, Len(sc[c].data),
                                      sc[c].expected),
                                    CommitRequest(sc[c].data, 0,
                                      sc[c].expected, sc[c].label,
                                      sc[c].original_digest)>>]
              /\ pc' = [pc EXCEPT ![c] = "sc_write"]
              /\ calls' = [calls EXCEPT ![c] = trace]
              /\ last' = NoLast
              /\ UNCHANGED <<guards, saved, known, lm>>
           \/ \* the request fails
              /\ SaveReturns(c, sc[c], Err("save_content",
                             RpcError(Unavailable)), trace, "transport")
              /\ UNCHANGED leases
           \/ \* the response carries no lease
              /\ sc[c].reference \notin leases
              /\ SaveReturns(c, sc[c], Err("save_content", ShimErrorContainerd(
                     <<"unable to create lease for  ">> \o sc[c].reference)),
                     trace, "no_lease")
              /\ UNCHANGED leases
    /\ UNCHANGED <<store, contentLabels, ingest, nops, images, ntampers>>

\* self.lease(reference) (lines 108-136, called at line 146) and, with the
\* lease held, tx.send(stat request) into the new channel (lines 150-168).
SC_Lease(c) ==
    /\ pc[c] = "sc_lease"
    /\ LET trace == Append(calls[c], Call("leases.create", sc[c].reference))
       IN  \/ \* the daemon refuses an id that exists
              /\ sc[c].reference \in leases
              /\ SaveReturns(c, sc[c], Err("save_content",
                             RpcError(AlreadyExists)), trace, "lease_exists")
              /\ UNCHANGED leases
           \/ \* the daemon creates the lease
              /\ sc[c].reference \notin leases
              /\ leases' = leases \cup {sc[c].reference}
              /\ sc' = [sc EXCEPT ![c].lease_id = sc[c].reference,
                                  ![c].tx = TRUE,
                                  ![c].chan = Append(@, StatRequest(
                                      sc[c].reference, Len(sc[c].data),
                                      sc[c].expected))]
              /\ pc' = [pc EXCEPT ![c] = "sc_write"]
              /\ calls' = [calls EXCEPT ![c] = trace]
              /\ last' = NoLast
              /\ UNCHANGED <<guards, saved, known, lm>>
           \/ \* the request fails
              /\ SaveReturns(c, sc[c], Err("save_content",
                             RpcError(Unavailable)), trace, "transport")
              /\ UNCHANGED leases
           \/ \* the response carries no lease
              /\ sc[c].reference \notin leases
              /\ SaveReturns(c, sc[c], Err("save_content", ShimErrorContainerd(
                     <<"unable to create lease for  ">> \o sc[c].reference)),
                     trace, "no_lease")
              /\ UNCHANGED leases
    /\ UNCHANGED <<store, contentLabels, ingest, nops, images, ntampers>>

\* A write that treats AlreadyExists like every other error of the stat.
SC_Write_NoShortCircuit(c) ==
    /\ pc[c] = "sc_write"
    /\ sc[c].chan # <<>>
    /\ LET trace == Append(calls[c], Call("content.write:stat", sc[c].reference))
       IN  \/ /\ ~MapHas(store, Head(sc[c].chan).expected)
              /\ sc' = [sc EXCEPT ![c].chan = Tail(@),
                                  ![c].wire = @ \o Head(sc[c].chan).data]
              /\ pc' = [pc EXCEPT ![c] = "sc_stat_resp"]
              /\ calls' = [calls EXCEPT ![c] = trace]
              /\ last' = NoLast
              /\ UNCHANGED <<guards, saved, known, lm>>
           \/ SaveFails(c, sc[c], Err("save_content", RpcError(
                            IF MapHas(store, Head(sc[c].chan).expected)
                            THEN AlreadyExists ELSE Unavailable)),
                        trace, "rejected")
    /\ UNCHANGED <<store, contentLabels, leases, ingest, nops, images, ntampers>>

\* What save_content returns when the stat is answered AlreadyExists
\* (lines 174-177): Ok(expected).
AlreadyExistsResult_Original(f) == OkDigest("save_content", f.original_digest)

AlreadyExistsResult(f) == OkDigest("save_content", f.expected)

\* A write that queues the commit of all the data as soon as the stream is
\* open, without waiting for the response to the stat.
SC_Write_CommitsAtOnce(c) ==
    /\ pc[c] = "sc_write"
    /\ sc[c].chan # <<>>
    /\ LET trace == Append(calls[c], Call("content.write:stat", sc[c].reference))
       IN  \/ /\ MapHas(store, Head(sc[c].chan).expected)
              /\ SaveReturns(c, sc[c], AlreadyExistsResult(sc[c]), trace, "exists")
              /\ UNCHANGED ingest
           \/ /\ ~MapHas(store, Head(sc[c].chan).expected)
              /\ sc' = [sc EXCEPT
                           ![c].chan = <<CommitRequest(
                               sc[c].data, 0, sc[c].expected,
                               sc[c].label, sc[c].original_digest)>>,
                           ![c].wire = @ \o Head(sc[c].chan).data]
              /\ ingest' = [ingest EXCEPT ![c] = <<>>]
              /\ pc' = [pc EXCEPT ![c] = "sc_commit_resp"]
              /\ calls' = [calls EXCEPT ![c] = trace]
              /\ last' = NoLast
              /\ UNCHANGED <<guards, saved, known, lm>>
           \/ /\ SaveFails(c, sc[c], Err("save_content", RpcError(Unavailable)),
                           trace, "transport")
              /\ UNCHANGED ingest
    /\ UNCHANGED <<store, contentLabels, leases, nops, images, ntampers>>

\* client.write(request_stream).await   (lines 169-179): the daemon takes the
\* stat request off the channel and opens a writer for the expected digest.
SC_Write(c) ==
    /\ pc[c] = "sc_write"
    /\ sc[c].chan # <<>>
    /\ LET trace == Append(calls[c], Call("content.write:stat", sc[c].reference))
       IN  \/ \* Err(e) if e.code() == Code::AlreadyExists => return Ok(expected)
              /\ MapHas(store, Head(sc[c].chan).expected)
              /\ SaveReturns(c, sc[c], AlreadyExistsResult(sc[c]), trace, "exists")
           \/ \* Ok(response_stream)
              /\ ~MapHas(store, Head(sc[c].chan).expected)
              /\ sc' = [sc EXCEPT ![c].chan = Tail(@),
                                  ![c].wire = @ \o Head(sc[c].chan).data]
              /\ pc' = [pc EXCEPT ![c] = "sc_stat_resp"]
              /\ calls' = [calls EXCEPT ![c] = trace]
              /\ last' = NoLast
              /\ UNCHANGED <<guards, saved, known, lm>>
           \/ \* Err(e) => return Err(...)
              SaveFails(c, sc[c], Err("save_content", RpcError(Unavailable)),
                        trace, "transport")
    /\ UNCHANGED <<store, contentLabels, leases, ingest, nops, images, ntampers>>

\* response_stream.message().await (lines 180-189): the daemon reports how
\* many bytes it already holds under the reference.  Then the slice of the
\* data and tx.send(commit_request) (lines 196-216).
SC_StatResponse(c) ==
    /\ pc[c] = "sc_stat_resp"
    /\ \/ \E prior \in DaemonPriors(sc[c].data), offset \in -1..(Len(sc[c].data) + 1) :
             /\ offset \in {Len(prior), -1}
             /\ offset = -1 => prior = <<>>
             /\ ingest' = [ingest EXCEPT ![c] = prior]
             /\ IF SlicePanics(sc[c].data, offset)
                THEN \/ \* the panic unwinds and drops the LeaseGuard
                        SaveFails(c, [sc[c] EXCEPT !.offset = offset,
                                                   !.stat = StatReceived(offset)],
                                  Panic("save_content"), calls[c], "panic")
                     \/ \* a build with panic = "abort" ends the process
                        SaveReturns(c, [sc[c] EXCEPT !.offset = offset,
                                                     !.stat = StatReceived(offset)],
                                    Panic("save_content"), calls[c], "abort")
                ELSE /\ Len(sc[c].chan) < ChannelCapacity
                     /\ sc' = [sc EXCEPT
                           ![c].offset = offset,
                           ![c].stat = StatReceived(offset),
                           ![c].chan = Append(@, CommitRequest(
                               sc[c].data, offset, sc[c].expected,
                               sc[c].label, sc[c].original_digest))]
                     /\ pc' = [pc EXCEPT ![c] = "sc_commit_resp"]
                     /\ last' = NoLast
                     /\ UNCHANGED <<guards, saved, known, calls, lm>>
       \/ \* the stream fails
          /\ SaveFails(c, sc[c], Err("save_content", RpcError(Unavailable)),
                       calls[c], "transport")
          /\ UNCHANGED ingest
       \/ \* the stream ends without a message
          /\ SaveFails(c, sc[c], Err("save_content", NoResponse(sc[c].expected)),
                       calls[c], "no_response")
          /\ UNCHANGED ingest
    /\ UNCHANGED <<store, contentLabels, leases, nops, images, ntampers>>

\* response_stream.message().await and the validation (lines 217-248): the
\* daemon takes the commit request off the channel, appends its data to the
\* bytes it holds, commits them if they are the expected content, and
\* answers with what it holds.
SC_CommitResponse(c) ==
    /\ pc[c] = "sc_commit_resp"
    /\ sc[c].chan # <<>>
    /\ ingest' = [ingest EXCEPT ![c] = <<>>]
    /\ LET req == Head(sc[c].chan)
           trace == Append(calls[c],
                           Call("content.write:commit", sc[c].reference))
           taken == [sc[c] EXCEPT !.chan = Tail(@), !.wire = @ \o req.data]
       IN  \/ \E k \in 0..Len(req.data) :
                LET actual == IngestAfter(ingest[c], req, k)
                    res == ValidateCommit(WriteResponse(actual),
                                          Len(sc[c].data), sc[c].expected)
                    got == [taken EXCEPT !.resp = Received(WriteResponse(actual))]
                IN  /\ req.offset \in {0, Len(ingest[c])}
                    /\ \/ \* the daemon commits and reports it
                          /\ Commits(actual, req)
                          /\ ~MapHas(store, req.expected)
                          /\ store' = MapInsert(store, req.expected, actual)
                          /\ contentLabels' =
                                 MapInsert(contentLabels, req.expected, req.labels)
                       \/ \* the daemon reports bytes that are not the content
                          /\ ~Commits(actual, req)
                          /\ UNCHANGED <<store, contentLabels>>
                    /\ IF res.ok
                       THEN SaveReturns(c, got, res, trace, "none")
                       ELSE SaveFails(c, got, res, trace, "verify")
           \/ \* the daemon rejects the commit: the content exists by now, the
              \* offset is not the writer's, or the bytes are not the content
              /\ \/ MapHas(store, req.expected)
                 \/ req.offset \notin {0, Len(ingest[c])}
                 \/ \E k \in 0..Len(req.data) :
                        ~Commits(IngestAfter(ingest[c], req, k), req)
              /\ SaveFails(c, taken, Err("save_content", ShimErrorContainerd(
                     <<"response stream error: ">>
                     \o StatusToString(
                           IF MapHas(store, req.expected) THEN AlreadyExists
                           ELSE IF req.offset \notin {0, Len(ingest[c])}
                           THEN OutOfRange ELSE FailedPrecondition))),
                     trace, "rejected")
              /\ UNCHANGED <<store, contentLabels>>
           \/ \* the stream fails
              /\ SaveFails(c, taken, Err("save_content", ShimErrorContainerd(
                     <<"response stream error: ">>
                     \o StatusToString(Unavailable))), trace, "transport")
              /\ UNCHANGED <<store, contentLabels>>
           \/ \* the stream ends without a message
              /\ SaveFails(c, taken, Err("save_content",
                           NoResponse(sc[c].expected)), trace, "no_response")
              /\ UNCHANGED <<store, contentLabels>>
    /\ UNCHANGED <<leases, nops, images, ntampers>>

\* The guard of a failed save_content goes out of scope; then the error
\* (or the panic) reaches the caller.
LeaseGuard_drop(c) ==
    /\ pc[c] = "sc_drop"
    /\ \E done \in BOOLEAN : leases' = Revoke(leases, sc[c].lease_id, done)
    /\ SaveReturns(c, [sc[c] EXCEPT !.lease_id = <<>>], sc[c].ret,
                   Append(calls[c], Call("leases.delete", sc[c].lease_id)),
                   sc[c].why)
    /\ UNCHANGED <<store, contentLabels, ingest, nops, images, ntampers>>

\* drop(returned): the caller lets go of a WriteContent.
DropGuard(c, g) ==
    /\ pc[c] = "idle"
    /\ g \in guards[c]
    /\ guards' = [guards EXCEPT ![c] = @ \ {g}]
    /\ \E done \in BOOLEAN : leases' = Revoke(leases, g.lease_id, done)
    /\ last' = NoLast
    /\ UNCHANGED <<store, contentLabels, ingest, pc, sc, calls, saved, known,
                   nops, images, lm, ntampers>>

\* client.read_content(digest)   (lines 72-89)
ReadContent(c, d) ==
    /\ pc[c] = "idle"
    /\ nops < MaxOps
    /\ nops' = nops + 1
    /\ \E x \in ReadCourses(store, d) :
          last' = [NoLast EXCEPT !.client = c,
                                 !.res = [x.res EXCEPT !.arg = d],
                                 !.calls = <<Call("content.read", d)>>,
                                 !.why = IF x.res.ok THEN "none" ELSE "read",
                                 !.opened = x.opened, !.stream = x.stream]
    /\ UNCHANGED <<store, contentLabels, leases, ingest, pc, sc, guards,
                   calls, saved, known, images, lm, ntampers>>

\* client.delete_content(digest)   (lines 93-105)
DeleteContent(c, d) ==
    /\ pc[c] = "idle"
    /\ nops < MaxOps
    /\ nops' = nops + 1
    /\ \/ /\ MapHas(store, d)
          /\ store' = MapRemove(store, d)
          /\ contentLabels' = MapRemove(contentLabels, d)
          /\ saved' = {p \in saved : p[1] # d}
          /\ last' = [NoLast EXCEPT
                         !.client = c,
                         !.res = [OkUnit("delete_content") EXCEPT !.arg = d],
                         !.calls = <<Call("content.delete", d)>>]
       \/ /\ last' = [NoLast EXCEPT
                         !.client = c,
                         !.res = [Err("delete_content", RpcError(
                                     IF MapHas(store, d) THEN Unavailable
                                     ELSE NotFound)) EXCEPT !.arg = d],
                         !.calls = <<Call("content.delete", d)>>,
                         !.why = "delete"]
          /\ UNCHANGED <<store, contentLabels, saved>>
    /\ UNCHANGED <<leases, ingest, pc, sc, guards, calls, known, images, lm,
                   ntampers>>

\* ------------------------------------------------------- the write protocol
OriginalDigests == {<<"original">>}

NextWrite ==
    \E c \in Clients :
       \/ \E data \in DataSet, o \in OriginalDigests, l \in TestLabels :
             CallSaveContent(c, data, o, l)
       \/ SC_Lease(c)
       \/ SC_Write(c)
       \/ SC_StatResponse(c)
       \/ SC_CommitResponse(c)
       \/ LeaseGuard_drop(c)
       \/ \E g \in guards[c] : DropGuard(c, g)
       \/ \E d \in known : ReadContent(c, d)
       \/ \E d \in known : DeleteContent(c, d)

SpecWrite == Init /\ [][NextWrite]_vars


\* ------------------------------------------------------------ load_modules
MaxRuns == 2
MaxTampers == 1

\* load_modules returns: its frame f is gone, res reaches the caller.
LMReturns(c, f, res, trace, reason) ==
    /\ last' = [NoLast EXCEPT !.client = c, !.res = res, !.calls = trace,
                              !.why = reason, !.run = f]
    /\ lm' = [lm EXCEPT ![c] = NoRun]
    /\ calls' = [calls EXCEPT ![c] = <<>>]
    /\ pc' = [pc EXCEPT ![c] = "idle"]

\* load_modules leaves with res while precompiled_content is alive: the
\* WriteContent and its LeaseGuard are dropped before res reaches the caller.
LMExit(c, f, res, trace, reason) ==
    /\ lm' = [lm EXCEPT ![c] = [f EXCEPT !.ret = res, !.why = reason]]
    /\ pc' = [pc EXCEPT ![c] = "lm_drop"]
    /\ calls' = [calls EXCEPT ![c] = trace]
    /\ last' = NoLast

LMError(e) == Err("load_modules", e)

\* client.load_modules(containerd_id, engine) and its first request,
\* self.get_container(containerd_id)   (lines 437-442, 357-376)
LM_GetContainer(c, id, engine) ==
    /\ pc[c] = "idle"
    /\ nops < MaxRuns
    /\ nops' = nops + 1
    /\ LET f == [NoRun EXCEPT !.container = id, !.engine = engine]
           trace == <<Call("containers.get", id)>>
       IN  \/ /\ lm' = [lm EXCEPT ![c] =
                           [f EXCEPT !.container_image = ContainerImage(id)]]
              /\ pc' = [pc EXCEPT ![c] = "lm_get_image"]
              /\ calls' = [calls EXCEPT ![c] = trace]
              /\ last' = NoLast
           \/ LMReturns(c, f, LMError(RpcError(Unavailable)), trace,
                        "transport")
    /\ UNCHANGED <<store, contentLabels, leases, ingest, sc, guards, saved,
                   known, images, ntampers>>

\* self.get_image(container.image) and extract_image_content_sha
\* (lines 443-445, 298-317, 342-355)
LM_GetImage(c) ==
    /\ pc[c] = "lm_get_image"
    /\ LET f == lm[c]
           name == f.container_image
           trace == Append(calls[c], Call("images.get", name))
       IN  \/ /\ MapHas(images, name)
              /\ LET image == MapGet(images, name)
                 IN  IF image.target.some
                     THEN /\ lm' = [lm EXCEPT ![c] =
                                       [f EXCEPT
                                          !.image = image,
                                          !.labels_read = image.labels,
                                          !.image_digest = image.target.digest]]
                          /\ pc' = [pc EXCEPT ![c] = "lm_read_manifest"]
                          /\ calls' = [calls EXCEPT ![c] = trace]
                          /\ last' = NoLast
                     ELSE LMReturns(c, f, LMError(ShimErrorContainerd(
                              <<"failed to get image content sha for image ">>
                              \o name)), trace, "no_target")
           \/ LMReturns(c, f, LMError(RpcError(
                            IF MapHas(images, name) THEN Unavailable
                            ELSE NotFound)), trace, "transport")
    /\ UNCHANGED <<store, contentLabels, leases, ingest, sc, guards, saved,
                   known, images, nops, ntampers>>

\* self.read_content(image_digest) and ImageManifest::from_reader
\* (lines 446-450)
LM_ReadManifest(c) ==
    /\ pc[c] = "lm_read_manifest"
    /\ LET f == lm[c]
           trace == Append(calls[c], Call("content.read", f.image_digest))
       IN  \E r \in read_content(store, f.image_digest) :
              IF ~r.ok
              THEN LMReturns(c, f, LMError(r.err), trace, "read")
              ELSE IF ~ManifestDecodes(r.bytes)
              THEN LMReturns(c, f, LMError(DecodeError), trace, "decode")
              ELSE /\ lm' = [lm EXCEPT ![c] =
                                [f EXCEPT !.manifest =
                                             ImageManifest_from_reader(r.bytes)]]
                   /\ pc' = [pc EXCEPT ![c] = "lm_read_config"]
                   /\ calls' = [calls EXCEPT ![c] = trace]
                   /\ last' = NoLast
    /\ UNCHANGED <<store, contentLabels, leases, ingest, sc, guards, saved,
                   known, images, nops, ntampers>>

\* self.read_content(image_config_descriptor.digest()), the platform, the
\* architecture gate, the engine's identity and the look at the image's
\* labels (lines 451-470)
LM_ReadConfig(c) ==
    /\ pc[c] = "lm_read_config"
    /\ LET f == lm[c]
           trace == Append(calls[c],
                           Call("content.read", f.manifest.config.digest))
       IN  \E r \in read_content(store, f.manifest.config.digest) :
              IF ~r.ok
              THEN LMReturns(c, f, LMError(r.err), trace, "read")
              ELSE IF ~PlatformDecodes(r.bytes)
              THEN LMReturns(c, f, LMError(DecodeError), trace, "decode")
              ELSE LET platform == Platform_from_slice(r.bytes)
                       id == PrecompileId(f.engine)
                       labelled == CacheLabelled(f.image.labels, id[1], id[2])
                       g == [f EXCEPT !.platform = platform]
                   IN  IF ~IsWasm(platform)
                       THEN LMReturns(c, g, OkLayers(<<>>, platform), trace,
                                      "not_wasm")
                       ELSE /\ lm' = [lm EXCEPT ![c] =
                                  [g EXCEPT
                                     !.can_precompile = id[1],
                                     !.precompile_id = id[2],
                                     !.lookup = IF labelled THEN "labelled"
                                                ELSE "absent"]]
                            /\ pc' = [pc EXCEPT ![c] =
                                         IF labelled THEN "lm_cache_read"
                                         ELSE "lm_fetch"]
                            /\ calls' = [calls EXCEPT ![c] = trace]
                            /\ last' = NoLast
    /\ UNCHANGED <<store, contentLabels, leases, ingest, sc, guards, saved,
                   known, images, nops, ntampers>>

\* The frame after the read r of the labelled digest d: what the lookup
\* found, and whether the label named content that is not in the store.
LookedUp(f, r, d) ==
    [f EXCEPT !.lookup = IF r.ok THEN "hit" ELSE "miss",
              !.stale = ~MapHas(store, d),
              !.disturbed = FALSE]

\* A cache lookup that goes on to the layers whatever the read returns.
LM_CacheRead_FallsThrough(c) ==
    /\ pc[c] = "lm_cache_read"
    /\ LET f == lm[c]
           precompile_digest == MapGet(f.image.labels, f.precompile_id)
           trace == Append(calls[c], Call("content.read", precompile_digest))
       IN  \E r \in read_content(store, precompile_digest) :
              /\ lm' = [lm EXCEPT ![c] = LookedUp(f, r, precompile_digest)]
              /\ pc' = [pc EXCEPT ![c] = "lm_fetch"]
              /\ calls' = [calls EXCEPT ![c] = trace]
              /\ last' = NoLast
    /\ UNCHANGED <<store, contentLabels, leases, ingest, sc, guards, saved,
                   known, images, nops, ntampers>>

\* A cache lookup that returns the error of the read.
LM_CacheRead_Propagates(c) ==
    /\ pc[c] = "lm_cache_read"
    /\ LET f == lm[c]
           precompile_digest == MapGet(f.image.labels, f.precompile_id)
           trace == Append(calls[c], Call("content.read", precompile_digest))
       IN  \E r \in read_content(store, precompile_digest) :
              IF r.ok
              THEN LMReturns(c, LookedUp(f, r, precompile_digest),
                             OkLayers(<<WasmLayer(f.manifest.config, r.bytes)>>,
                                      f.platform), trace, "cache_hit")
              ELSE LMReturns(c, LookedUp(f, r, precompile_digest),
                             LMError(r.err), trace, "read")
    /\ UNCHANGED <<store, contentLabels, leases, ingest, sc, guards, saved,
                   known, images, nops, ntampers>>

\* match self.read_content(precompile_digest) { Ok(precompiled) => return ..,
\* Err(e) => log and continue }   (lines 472-487)
LM_CacheRead(c) ==
    /\ pc[c] = "lm_cache_read"
    /\ LET f == lm[c]
           precompile_digest == MapGet(f.image.labels, f.precompile_id)
           trace == Append(calls[c], Call("content.read", precompile_digest))
       IN  \E r \in read_content(store, precompile_digest) :
              IF r.ok
              THEN LMReturns(c, LookedUp(f, r, precompile_digest),
                             OkLayers(<<WasmLayer(f.manifest.config, r.bytes)>>,
                                      f.platform), trace, "cache_hit")
              ELSE /\ lm' = [lm EXCEPT ![c] =
                                LookedUp(f, r, precompile_digest)]
                   /\ pc' = [pc EXCEPT ![c] = "lm_fetch"]
                   /\ calls' = [calls EXCEPT ![c] = trace]
                   /\ last' = NoLast
    /\ UNCHANGED <<store, contentLabels, leases, ingest, sc, guards, saved,
                   known, images, nops, ntampers>>

\* One more item of .filter(..).map(|config| self.read_content(config.digest()))
\* .collect::<Result<Vec<_>>>()?   (lines 500-505)
LM_FetchLayer(c) ==
    /\ pc[c] = "lm_fetch"
    /\ LET f == lm[c]
           supported == SupportedLayers(f.manifest, f.engine)
       IN  /\ Len(f.layers) < Len(supported)
           /\ LET config == supported[Len(f.layers) + 1]
                  trace == Append(calls[c], Call("content.read", config.digest))
                  g == [f EXCEPT !.fetched = Append(@, config.digest)]
              IN  \E r \in read_content(store, config.digest) :
                     IF r.ok
                     THEN /\ lm' = [lm EXCEPT ![c] =
                                       [g EXCEPT !.layers = Append(@, r.bytes)]]
                          /\ calls' = [calls EXCEPT ![c] = trace]
                          /\ last' = NoLast
                          /\ UNCHANGED pc
                     ELSE LMReturns(c, g, LMError(r.err), trace, "read")
    /\ UNCHANGED <<store, contentLabels, leases, ingest, sc, guards, saved,
                   known, images, nops, ntampers>>

\* A load_modules without the check for an empty layer set.
LM_Precompile_NoEmptyCheck(c) ==
    /\ pc[c] = "lm_fetch"
    /\ LET f == lm[c]
       IN  /\ Len(f.layers) = Len(SupportedLayers(f.manifest, f.engine))
           /\ IF f.can_precompile
              THEN LET trace == Append(calls[c],
                                       Call("engine.precompile", f.fetched))
                       precompiled == Precompile(f.engine, f.layers)
                   IN  /\ lm' = [lm EXCEPT ![c].precompiled = precompiled]
                       /\ sc' = [sc EXCEPT ![c] =
                             [NoFrame EXCEPT
                                !.data = precompiled,
                                !.original_digest = f.image_digest,
                                !.label = f.precompile_id,
                                !.expected = SaveExpected(precompiled),
                                !.reference = SaveReference(f.precompile_id),
                                !.caller = "load_modules"]]
                       /\ pc' = [pc EXCEPT ![c] = "sc_lease"]
                       /\ calls' = [calls EXCEPT ![c] = trace]
                       /\ last' = NoLast
              ELSE /\ LMReturns(c, f,
                                OkLayers(PairWithConfig(f.manifest.config,
                                                        f.layers), f.platform),
                                calls[c], "layers")
                   /\ UNCHANGED sc
    /\ UNCHANGED <<store, contentLabels, leases, ingest, guards, saved,
                   known, images, nops, ntampers>>

\* A load_modules that labels the image with the digest it computed itself
\* and writes the artifact never.
LM_Precompile_LabelsUnwritten(c) ==
    /\ pc[c] = "lm_fetch"
    /\ LET f == lm[c]
       IN  /\ Len(f.layers) = Len(SupportedLayers(f.manifest, f.engine))
           /\ IF f.layers = <<>>
              THEN LMReturns(c, f, OkLayers(<<>>, f.platform), calls[c],
                             "no_layers")
              ELSE IF f.can_precompile
              THEN LET precompiled == Precompile(f.engine, f.layers)
                   IN  /\ lm' = [lm EXCEPT
                                   ![c].precompiled = precompiled,
                                   ![c].precompiled_content =
                                       WriteContent(
                                           SaveReference(f.precompile_id),
                                           SaveExpected(precompiled))]
                       /\ pc' = [pc EXCEPT ![c] = "lm_update_image"]
                       /\ calls' = [calls EXCEPT ![c] =
                              Append(@, Call("engine.precompile", f.fetched))]
                       /\ last' = NoLast
              ELSE LMReturns(c, f,
                             OkLayers(PairWithConfig(f.manifest.config,
                                                     f.layers), f.platform),
                             calls[c], "layers")
    /\ UNCHANGED <<store, contentLabels, leases, ingest, sc, guards, saved,
                   known, images, nops, ntampers>>

\* A load_modules whose write reference names the image as well.
LM_Precompile_LeasePerImage(c) ==
    /\ pc[c] = "lm_fetch"
    /\ LET f == lm[c]
       IN  /\ Len(f.layers) = Len(SupportedLayers(f.manifest, f.engine))
           /\ IF f.layers = <<>>
              THEN /\ LMReturns(c, f, OkLayers(<<>>, f.platform), calls[c],
                                "no_layers")
                   /\ UNCHANGED sc
              ELSE IF f.can_precompile
              THEN LET trace == Append(calls[c],
                                       Call("engine.precompile", f.fetched))
                   IN  \/ \E precompiled \in
                                 PrecompileOutputs(f.engine, f.layers) :
                              /\ lm' = [lm EXCEPT ![c].precompiled = precompiled]
                              /\ sc' = [sc EXCEPT ![c] =
                                    [NoFrame EXCEPT
                                       !.data = precompiled,
                                       !.original_digest = f.image_digest,
                                       !.label = f.precompile_id,
                                       !.expected = SaveExpected(precompiled),
                                       !.reference =
                                           SaveReference(f.precompile_id)
                                           \o <<"/">> \o f.image_digest,
                                       !.caller = "load_modules"]]
                              /\ pc' = [pc EXCEPT ![c] = "sc_lease"]
                              /\ calls' = [calls EXCEPT ![c] = trace]
                              /\ last' = NoLast
                       \/ /\ LMReturns(c, f, LMError(EngineError), trace,
                                       "precompile")
                          /\ UNCHANGED sc
              ELSE /\ LMReturns(c, f,
                                OkLayers(PairWithConfig(f.manifest.config,
                                                        f.layers), f.platform),
                                calls[c], "layers")
                   /\ UNCHANGED sc
    /\ UNCHANGED <<store, contentLabels, leases, ingest, guards, saved,
                   known, images, nops, ntampers>>

\* With every supported layer fetched: the empty result, engine.precompile
\* and the call of save_content, or the layers as they are
\* (lines 507-517, 545-553)
LM_Precompile(c) ==
    /\ pc[c] = "lm_fetch"
    /\ LET f == lm[c]
       IN  /\ Len(f.layers) = Len(SupportedLayers(f.manifest, f.engine))
           /\ IF f.layers = <<>>
              THEN /\ LMReturns(c, f, OkLayers(<<>>, f.platform), calls[c],
                                "no_layers")
                   /\ UNCHANGED sc
              ELSE IF f.can_precompile
              THEN LET trace == Append(calls[c],
                                       Call("engine.precompile", f.fetched))
                   IN  \/ \E precompiled \in
                                 PrecompileOutputs(f.engine, f.layers) :
                              /\ lm' = [lm EXCEPT ![c].precompiled = precompiled]
                              /\ sc' = [sc EXCEPT ![c] =
                                    [NoFrame EXCEPT
                                       !.data = precompiled,
                                       !.original_digest = f.image_digest,
                                       !.label = f.precompile_id,
                                       !.expected = SaveExpected(precompiled),
                                       !.reference =
                                           SaveReference(f.precompile_id),
                                       !.caller = "load_modules"]]
                              /\ pc' = [pc EXCEPT ![c] = "sc_lease"]
                              /\ calls' = [calls EXCEPT ![c] = trace]
                              /\ last' = NoLast
                       \/ /\ LMReturns(c, f, LMError(EngineError), trace,
                                       "precompile")
                          /\ UNCHANGED sc
              ELSE /\ LMReturns(c, f,
                                OkLayers(PairWithConfig(f.manifest.config,
                                                        f.layers), f.platform),
                                calls[c], "layers")
                   /\ UNCHANGED sc
    /\ UNCHANGED <<store, contentLabels, leases, ingest, guards, saved,
                   known, images, nops, ntampers>>

\* An update that writes the cache label of the image and the GC reference
\* of its manifest in one step.
LM_UpdateImage_BothLabels(c) ==
    /\ pc[c] = "lm_update_image"
    /\ LET f == lm[c]
           image == [f.image EXCEPT !.labels =
                        MapInsert(@, f.precompile_id,
                                  f.precompiled_content.digest)]
           req == UpdateImageRequest(image)
           g == [f EXCEPT !.image = image]
           trace == Append(calls[c], Call("images.update", req))
       IN  \/ /\ MapHas(images, image.name)
              /\ MapHas(contentLabels, f.image_digest)
              /\ images' = MapInsert(images, image.name,
                               ImagesUpdate(MapGet(images, image.name), req))
              /\ contentLabels' =
                     MapInsert(contentLabels, f.image_digest,
                               MapInsert(MapGet(contentLabels, f.image_digest),
                                         GC_REF_LABEL,
                                         f.precompiled_content.digest))
              /\ lm' = [lm EXCEPT ![c] =
                           [g EXCEPT !.updated =
                               ImagesUpdate(MapGet(images, image.name), req)]]
              /\ pc' = [pc EXCEPT ![c] = "lm_get_info"]
              /\ calls' = [calls EXCEPT ![c] = trace]
              /\ last' = NoLast
           \/ /\ LMExit(c, g, LMError(RpcError(Unavailable)), trace,
                        "transport")
              /\ UNCHANGED <<images, contentLabels>>
    /\ UNCHANGED <<store, leases, ingest, sc, guards, saved,
                   known, nops, ntampers>>

\* An update_image after the WriteContent was dropped with only its digest
\* kept.
LM_UpdateImage_GuardDropped(c) ==
    /\ pc[c] = "lm_update_image"
    /\ LET f == lm[c]
           image == [f.image EXCEPT !.labels =
                        MapInsert(@, f.precompile_id,
                                  f.precompiled_content.digest)]
           req == UpdateImageRequest(image)
           g == [f EXCEPT !.image = image]
           trace == Append(calls[c], Call("images.update", req))
       IN  /\ leases' = leases \ {f.precompiled_content.lease_id}
           /\ \/ /\ MapHas(images, image.name)
                 /\ images' = MapInsert(images, image.name,
                                  ImagesUpdate(MapGet(images, image.name), req))
                 /\ lm' = [lm EXCEPT ![c] =
                              [g EXCEPT !.updated =
                                  ImagesUpdate(MapGet(images, image.name), req)]]
                 /\ pc' = [pc EXCEPT ![c] = "lm_get_info"]
                 /\ calls' = [calls EXCEPT ![c] = trace]
                 /\ last' = NoLast
              \/ /\ LMExit(c, g, LMError(RpcError(Unavailable)), trace,
                           "transport")
                 /\ UNCHANGED images
    /\ UNCHANGED <<store, contentLabels, ingest, sc, guards, saved,
                   known, nops, ntampers>>

\* image.labels.insert(precompile_id, precompiled_content.digest) and
\* self.update_image(image): the daemon replaces the labels of the image
\* record, the one field in the mask (lines 520-523, 319-340)
LM_UpdateImage(c) ==
    /\ pc[c] = "lm_update_image"
    /\ LET f == lm[c]
           image == [f.image EXCEPT !.labels =
                        MapInsert(@, f.precompile_id,
                                  f.precompiled_content.digest)]
           req == UpdateImageRequest(image)
           g == [f EXCEPT !.image = image]
           trace == Append(calls[c], Call("images.update", req))
       IN  \/ /\ MapHas(images, image.name)
              /\ images' = MapInsert(images, image.name,
                               ImagesUpdate(MapGet(images, image.name), req))
              /\ lm' = [lm EXCEPT ![c] =
                           [g EXCEPT !.updated =
                               ImagesUpdate(MapGet(images, image.name), req)]]
              /\ pc' = [pc EXCEPT ![c] = "lm_get_info"]
              /\ calls' = [calls EXCEPT ![c] = trace]
              /\ last' = NoLast
           \/ /\ LMExit(c, g, LMError(RpcError(Unavailable)), trace,
                        "transport")
              /\ UNCHANGED images
    /\ UNCHANGED <<store, contentLabels, leases, ingest, sc, guards, saved,
                   known, nops, ntampers>>

\* let mut image_content = self.get_info(image_digest)?
\* (lines 529, 251-271)
LM_GetInfo(c) ==
    /\ pc[c] = "lm_get_info"
    /\ LET f == lm[c]
           trace == Append(calls[c], Call("content.info", f.image_digest))
       IN  \/ /\ MapHas(store, f.image_digest)
              /\ lm' = [lm EXCEPT ![c].image_content =
                           Info(f.image_digest,
                                MapGet(contentLabels, f.image_digest))]
              /\ pc' = [pc EXCEPT ![c] = "lm_update_info"]
              /\ calls' = [calls EXCEPT ![c] = trace]
              /\ last' = NoLast
           \/ LMExit(c, f, LMError(RpcError(
                         IF MapHas(store, f.image_digest) THEN Unavailable
                         ELSE NotFound)), trace, "transport")
    /\ UNCHANGED <<store, contentLabels, leases, ingest, sc, guards, saved,
                   known, images, nops, ntampers>>

\* image_content.labels.insert("containerd.io/gc.ref.content.precompile", ..),
\* self.update_info(image_content)? and the return of the precompiled layer
\* (lines 530-542, 273-296)
LM_UpdateInfo(c) ==
    /\ pc[c] = "lm_update_info"
    /\ LET f == lm[c]
           info == [f.image_content EXCEPT !.labels =
                       MapInsert(@, GC_REF_LABEL, f.precompiled_content.digest)]
           req == UpdateRequest(info)
           g == [f EXCEPT !.image_content = info]
           trace == Append(calls[c], Call("content.update", req))
       IN  \/ /\ MapHas(store, info.digest)
              /\ contentLabels' =
                     MapInsert(contentLabels, info.digest,
                               ContentUpdate(MapGet(contentLabels, info.digest),
                                             req))
              /\ LMExit(c, g, OkLayers(<<WasmLayer(f.manifest.config,
                                                   f.precompiled)>>,
                                       f.platform), trace, "precompiled")
           \/ /\ LMExit(c, g, LMError(RpcError(
                            IF MapHas(store, info.digest) THEN Unavailable
                            ELSE NotFound)), trace, "transport")
              /\ UNCHANGED contentLabels
    /\ UNCHANGED <<store, leases, ingest, sc, guards, saved, known, images,
                   nops, ntampers>>

\* precompiled_content goes out of scope at the end of load_modules: its
\* LeaseGuard is dropped, then the Result reaches the caller.
LM_Drop(c) ==
    /\ pc[c] = "lm_drop"
    /\ LET f == lm[c]
       IN  /\ \E done \in BOOLEAN :
                 leases' = Revoke(leases, f.precompiled_content.lease_id, done)
           /\ LMReturns(c, f, f.ret,
                        Append(calls[c], Call("leases.delete",
                                              f.precompiled_content.lease_id)),
                        f.why)
    /\ UNCHANGED <<store, contentLabels, ingest, sc, guards, saved, known,
                   images, nops, ntampers>>

\* --------------------------------------------------------- load_components
LCError(e) == Err("load_components", e)

OkComponents(layers, platform) ==
    [NoResult EXCEPT !.op = "load_components", !.ok = TRUE,
                     !.layers = layers, !.platform = platform]

\* A result that pairs every layer with the first descriptor.
PairWithOwn_First(supported, layers) ==
    [i \in 1..Len(layers) |-> WasmLayer(supported[1], layers[i])]

\* res.push(WasmLayer { config: cfg.clone(), layer: .. }) for every
\* supported cfg of the manifest, in its order (lines 422-429)
PairWithOwn(supported, layers) ==
    [i \in 1..Len(layers) |-> WasmLayer(supported[i], layers[i])]

\* The loop over manifest.layers() with the frame g (lines 422-431): the
\* next supported layer is read, or none is left and Ok((res, platform))
\* is returned.
LCLoop(c, g, trace) ==
    LET supported == SupportedLayers(g.manifest, g.engine)
    IN  IF Len(g.layers) = Len(supported)
        THEN LMReturns(c, g, OkComponents(PairWithOwn(supported, g.layers),
                                          g.platform), trace, "layers")
        ELSE /\ lm' = [lm EXCEPT ![c] = g]
             /\ pc' = [pc EXCEPT ![c] = "lc_fetch"]
             /\ calls' = [calls EXCEPT ![c] = trace]
             /\ last' = NoLast

\* client.load_components(containerd_id, engine) and its first request,
\* self.get_container(containerd_id)   (lines 378-383, 357-376)
LC_GetContainer(c, id, engine) ==
    /\ pc[c] = "idle"
    /\ nops < MaxRuns
    /\ nops' = nops + 1
    /\ LET f == [NoRun EXCEPT !.container = id, !.engine = engine]
           trace == <<Call("containers.get", id)>>
       IN  \/ /\ lm' = [lm EXCEPT ![c] =
                           [f EXCEPT !.container_image = ContainerImage(id)]]
              /\ pc' = [pc EXCEPT ![c] = "lc_get_image"]
              /\ calls' = [calls EXCEPT ![c] = trace]
              /\ last' = NoLast
           \/ LMReturns(c, f, LCError(RpcError(Unavailable)), trace,
                        "transport")
    /\ UNCHANGED <<store, contentLabels, leases, ingest, sc, guards, saved,
                   known, images, ntampers>>

\* self.get_image(container.image) and extract_image_content_sha
\* (lines 384, 388, 298-317, 342-355)
LC_GetImage(c) ==
    /\ pc[c] = "lc_get_image"
    /\ LET f == lm[c]
           name == f.container_image
           trace == Append(calls[c], Call("images.get", name))
       IN  \/ /\ MapHas(images, name)
              /\ LET image == MapGet(images, name)
                 IN  IF image.target.some
                     THEN /\ lm' = [lm EXCEPT ![c] =
                                       [f EXCEPT
                                          !.image = image,
                                          !.labels_read = image.labels,
                                          !.image_digest = image.target.digest]]
                          /\ pc' = [pc EXCEPT ![c] = "lc_read_manifest"]
                          /\ calls' = [calls EXCEPT ![c] = trace]
                          /\ last' = NoLast
                     ELSE LMReturns(c, f, LCError(ShimErrorContainerd(
                              <<"failed to get image content sha for image ">>
                              \o name)), trace, "no_target")
           \/ LMReturns(c, f, LCError(RpcError(
                            IF MapHas(images, name) THEN Unavailable
                            ELSE NotFound)), trace, "transport")
    /\ UNCHANGED <<store, contentLabels, leases, ingest, sc, guards, saved,
                   known, images, nops, ntampers>>

\* ImageManifest::from_reader(self.read_content(..)?.as_slice())?
\* (lines 387-390)
LC_ReadManifest(c) ==
    /\ pc[c] = "lc_read_manifest"
    /\ LET f == lm[c]
           trace == Append(calls[c], Call("content.read", f.image_digest))
       IN  \E r \in read_content(store, f.image_digest) :
              IF ~r.ok
              THEN LMReturns(c, f, LCError(r.err), trace, "read")
              ELSE IF ~ManifestDecodes(r.bytes)
              THEN LMReturns(c, f, LCError(DecodeError), trace, "decode")
              ELSE /\ lm' = [lm EXCEPT ![c] =
                                [f EXCEPT !.manifest =
                                             ImageManifest_from_reader(r.bytes)]]
                   /\ pc' = [pc EXCEPT ![c] = "lc_read_config"]
                   /\ calls' = [calls EXCEPT ![c] = trace]
                   /\ last' = NoLast
    /\ UNCHANGED <<store, contentLabels, leases, ingest, sc, guards, saved,
                   known, images, nops, ntampers>>

\* self.read_content(manifest.config().digest()), the platform and the
\* architecture gate; then the loop up to its first read (lines 392-427)
LC_ReadConfig(c) ==
    /\ pc[c] = "lc_read_config"
    /\ LET f == lm[c]
           trace == Append(calls[c],
                           Call("content.read", f.manifest.config.digest))
       IN  \E r \in read_content(store, f.manifest.config.digest) :
              IF ~r.ok
              THEN LMReturns(c, f, LCError(r.err), trace, "read")
              ELSE IF ~PlatformDecodes(r.bytes)
              THEN LMReturns(c, f, LCError(DecodeError), trace, "decode")
              ELSE LET platform == Platform_from_slice(r.bytes)
                       g == [f EXCEPT !.platform = platform]
                   IN  IF ~IsWasm(platform)
                       THEN LMReturns(c, g, OkComponents(<<>>, platform),
                                      trace, "not_wasm")
                       ELSE LCLoop(c, g, trace)
    /\ UNCHANGED <<store, contentLabels, leases, ingest, sc, guards, saved,
                   known, images, nops, ntampers>>

\* layer: self.read_content(cfg.digest())? of the next supported layer,
\* and the loop up to the read after it or the return (lines 422-431)
LC_FetchLayer(c) ==
    /\ pc[c] = "lc_fetch"
    /\ LET f == lm[c]
           supported == SupportedLayers(f.manifest, f.engine)
       IN  /\ Len(f.layers) < Len(supported)
           /\ LET cfg == supported[Len(f.layers) + 1]
                  trace == Append(calls[c], Call("content.read", cfg.digest))
                  g == [f EXCEPT !.fetched = Append(@, cfg.digest)]
              IN  \E r \in read_content(store, cfg.digest) :
                     IF r.ok
                     THEN LCLoop(c, [g EXCEPT !.layers = Append(@, r.bytes)],
                                 trace)
                     ELSE LMReturns(c, g, LCError(r.err), trace, "read")
    /\ UNCHANGED <<store, contentLabels, leases, ingest, sc, guards, saved,
                   known, images, nops, ntampers>>

\* ------------------------------------------------------- the environment
\* The digests the images' labels under PRECOMPILE_PREFIX name.
IsPrecompileLabel(key) ==
    Len(key) >= 1 /\ SubSeq(key, 1, Len(PRECOMPILE_PREFIX)) = PRECOMPILE_PREFIX

LabelledDigests ==
    {l[2] : l \in {x \in UNION {p[2].labels : p \in images} :
                      IsPrecompileLabel(x[1])}}

\* Another process removes a precompiled content from the store (the
\* remove_content of test_hello_world_oci_uses_precompiled_when_content_removed).
RemoveContent(d) ==
    /\ ntampers < MaxTampers
    /\ ntampers' = ntampers + 1
    /\ MapHas(store, d)
    /\ store' = MapRemove(store, d)
    /\ contentLabels' = MapRemove(contentLabels, d)
    /\ saved' = {p \in saved : p[1] # d}
    /\ lm' = [c \in Clients |->
                 IF pc[c] = "idle" THEN lm[c]
                 ELSE [lm[c] EXCEPT !.disturbed = TRUE]]
    /\ last' = NoLast
    /\ UNCHANGED <<leases, ingest, pc, sc, guards, calls, known, nops, images>>

\* ---------------------------------------------------- the orchestration
\* The labels an image carries before any shim has run: none, one that is
\* not a cache key, or one whose key is the empty string and whose value is
\* the digest of the first layer.
InitialLabels ==
    {{}, {<<<<"org.opencontainers.image.title">>, <<"hello">>>>},
     {<<<<>>, ContentDigest(LayerBytes(1))>>}}

Stored(blobs) == {<<ContentDigest(b), b>> : b \in blobs}

\* A pulled image and a container created from it; no shim has run.
InitImage ==
    /\ \E a \in ArchCodes, types \in BytesUpTo(LayerCodes, MaxLayers),
          labels \in InitialLabels :
          LET manifest == ManifestBytes(a, types)
              blobs == {manifest, ConfigBytes(a)}
                       \cup {LayerBytes(j) : j \in 1..Len(types)}
          IN  /\ store = Stored(blobs)
              /\ contentLabels = {<<ContentDigest(b), {}>> : b \in blobs}
              /\ images = {<<ImageName,
                             Image(ImageName, Target(ContentDigest(manifest)),
                                   labels)>>}
    /\ leases = {}
    /\ ingest = [c \in Clients |-> <<>>]
    /\ pc = [c \in Clients |-> "idle"]
    /\ sc = [c \in Clients |-> NoFrame]
    /\ guards = [c \in Clients |-> {}]
    /\ calls = [c \in Clients |-> <<>>]
    /\ last = NoLast
    /\ saved = {}
    /\ known = {}
    /\ nops = 0
    /\ lm = [c \in Clients |-> NoRun]
    /\ ntampers = 0

\* The shim that runs.
Runners == {1}

Next ==
    \/ \E c \in Runners :
          \/ \E id \in ContainerIds, engine \in Engines :
                LM_GetContainer(c, id, engine)
          \/ LM_GetImage(c)
          \/ LM_ReadManifest(c)
          \/ LM_ReadConfig(c)
          \/ LM_CacheRead(c)
          \/ LM_FetchLayer(c)
          \/ LM_Precompile(c)
          \/ SC_Lease(c)
          \/ SC_Write(c)
          \/ SC_StatResponse(c)
          \/ SC_CommitResponse(c)
          \/ LeaseGuard_drop(c)
          \/ LM_UpdateImage(c)
          \/ LM_GetInfo(c)
          \/ LM_UpdateInfo(c)
          \/ LM_Drop(c)
    \/ \E d \in LabelledDigests : RemoveContent(d)

Spec == InitImage /\ [][Next]_vars

\* ------------------------------------------------ the run, always driven
\* A step of the load_modules run of c: every step but the call itself.
RunStep(c) ==
    \/ LM_GetImage(c)
    \/ LM_ReadManifest(c)
    \/ LM_ReadConfig(c)
    \/ LM_CacheRead(c)
    \/ LM_FetchLayer(c)
    \/ LM_Precompile(c)
    \/ SC_Lease(c)
    \/ SC_Write(c)
    \/ SC_StatResponse(c)
    \/ SC_CommitResponse(c)
    \/ LeaseGuard_drop(c)
    \/ LM_UpdateImage(c)
    \/ LM_GetInfo(c)
    \/ LM_UpdateInfo(c)
    \/ LM_Drop(c)

\* self.rt.block_on(..) drives every request of a run to its response, and
\* the daemon answers or fails every request and stream: a run that can take
\* a step takes one.
SpecLive == Spec /\ \A c \in Runners : WF_vars(RunStep(c))

\* ------------------------------------- shims of several engines, one image
\* A pulled wasm image with one supported layer, alone or behind a tar
\* layer: with no label, or as a successful run of the shim of engine
\* Wasmer leaves it (artifact stored, cache label, GC reference).
InitEngines ==
    /\ \E types \in {<<1>>, <<2, 1>>}, ran \in BOOLEAN :
          LET manifest == ManifestBytes(1, types)
              blobs == {manifest, ConfigBytes(1)}
                       \cup {LayerBytes(j) : j \in 1..Len(types)}
              artifact == Precompile(Wasmer, <<LayerBytes(Len(types))>>)
              key == PrecompileId(Wasmer)[2]
          IN  IF ran
              THEN /\ store = Stored(blobs \cup {artifact})
                   /\ contentLabels =
                          {<<ContentDigest(b), {}>> : b \in blobs \ {manifest}}
                          \cup {<<ContentDigest(manifest),
                                  {<<GC_REF_LABEL, ContentDigest(artifact)>>}>>,
                                <<ContentDigest(artifact),
                                  {<<key, ContentDigest(manifest)>>}>>}
                   /\ images = {<<ImageName,
                                  Image(ImageName,
                                        Target(ContentDigest(manifest)),
                                        {<<key, ContentDigest(artifact)>>})>>}
              ELSE /\ store = Stored(blobs)
                   /\ contentLabels = {<<ContentDigest(b), {}>> : b \in blobs}
                   /\ images = {<<ImageName,
                                  Image(ImageName,
                                        Target(ContentDigest(manifest)),
                                        {})>>}
    /\ leases = {}
    /\ ingest = [c \in Clients |-> <<>>]
    /\ pc = [c \in Clients |-> "idle"]
    /\ sc = [c \in Clients |-> NoFrame]
    /\ guards = [c \in Clients |-> {}]
    /\ calls = [c \in Clients |-> <<>>]
    /\ last = NoLast
    /\ saved = {}
    /\ known = {}
    /\ nops = 0
    /\ lm = [c \in Clients |-> NoRun]
    /\ ntampers = 0

\* Shims of engines that can precompile, of different names and identities,
\* run load_modules for the same image, one after the other.
NextEngines ==
    \/ \E c \in Runners :
          \/ \E id \in ContainerIds, engine \in PrecompilingEngines :
                LM_GetContainer(c, id, engine)
          \/ LM_GetImage(c)
          \/ LM_ReadManifest(c)
          \/ LM_ReadConfig(c)
          \/ LM_CacheRead(c)
          \/ LM_FetchLayer(c)
          \/ LM_Precompile(c)
          \/ SC_Lease(c)
          \/ SC_Write(c)
          \/ SC_StatResponse(c)
          \/ SC_CommitResponse(c)
          \/ LeaseGuard_drop(c)
          \/ LM_UpdateImage(c)
          \/ LM_GetInfo(c)
          \/ LM_UpdateInfo(c)
          \/ LM_Drop(c)
    \/ \E d \in LabelledDigests : RemoveContent(d)

SpecEngines == InitEngines /\ [][NextEngines]_vars

\* ------------------------------- a shim and another client of the daemon
\* A label another client of the daemon puts on a record.
OtherLabelKey == <<"io.cri-containerd.image">>
OtherLabelValue == <<"managed">>

\* Another client of the daemon adds its label to the image record with an
\* update of the labels (update_image, lines 319-340).
OtherClientLabelsImage ==
    /\ ntampers < MaxTampers
    /\ ntampers' = ntampers + 1
    /\ MapHas(images, ImageName)
    /\ LET image == MapGet(images, ImageName)
       IN  images' = MapInsert(images, ImageName,
                         [image EXCEPT !.labels =
                             MapInsert(@, OtherLabelKey, OtherLabelValue)])
    /\ last' = NoLast
    /\ UNCHANGED <<store, contentLabels, leases, ingest, pc, sc, guards, calls,
                   saved, known, nops, lm>>

\* Another client of the daemon adds its label to the content record of the
\* image's manifest (update_info, lines 273-296).
OtherClientLabelsContent ==
    /\ ntampers < MaxTampers
    /\ ntampers' = ntampers + 1
    /\ MapHas(images, ImageName)
    /\ LET d == MapGet(images, ImageName).target.digest
       IN  /\ MapHas(contentLabels, d)
           /\ contentLabels' =
                  MapInsert(contentLabels, d,
                            MapInsert(MapGet(contentLabels, d),
                                      OtherLabelKey, OtherLabelValue))
    /\ last' = NoLast
    /\ UNCHANGED <<store, images, leases, ingest, pc, sc, guards, calls,
                   saved, known, nops, lm>>

\* The next version of the image: two wasm layers.
NextVersion == ManifestBytes(1, <<1, 1>>)

\* Another client of the daemon pulls the next version of the image under
\* the same name: its blobs are stored and the image record is pointed at
\* the new manifest.
OtherClientRetargets ==
    /\ ntampers < MaxTampers
    /\ ntampers' = ntampers + 1
    /\ MapHas(images, ImageName)
    /\ LET image == MapGet(images, ImageName)
           blobs == {b \in {NextVersion, ConfigBytes(1), LayerBytes(1),
                            LayerBytes(2)} : ~MapHas(store, ContentDigest(b))}
       IN  /\ image.target # Target(ContentDigest(NextVersion))
           /\ store' = store \cup Stored(blobs)
           /\ contentLabels' =
                  contentLabels \cup {<<ContentDigest(b), {}>> : b \in blobs}
           /\ images' = MapInsert(images, ImageName,
                             [image EXCEPT
                                 !.target = Target(ContentDigest(NextVersion))])
    /\ last' = NoLast
    /\ UNCHANGED <<leases, ingest, pc, sc, guards, calls, saved, known, nops,
                   lm>>

\* A pulled wasm image of one wasm layer, with no label.
InitShared ==
    /\ LET manifest == ManifestBytes(1, <<1>>)
           blobs == {manifest, ConfigBytes(1), LayerBytes(1)}
       IN  /\ store = Stored(blobs)
           /\ contentLabels = {<<ContentDigest(b), {}>> : b \in blobs}
           /\ images = {<<ImageName,
                          Image(ImageName, Target(ContentDigest(manifest)),
                                {})>>}
    /\ leases = {}
    /\ ingest = [c \in Clients |-> <<>>]
    /\ pc = [c \in Clients |-> "idle"]
    /\ sc = [c \in Clients |-> NoFrame]
    /\ guards = [c \in Clients |-> {}]
    /\ calls = [c \in Clients |-> <<>>]
    /\ last = NoLast
    /\ saved = {}
    /\ known = {}
    /\ nops = 0
    /\ lm = [c \in Clients |-> NoRun]
    /\ ntampers = 0

\* One shim runs load_modules while other clients of the daemon change the
\* records of the image.
NextShared ==
    \/ \E c \in Runners :
          \/ \E id \in ContainerIds : LM_GetContainer(c, id, Wasmtime)
          \/ LM_GetImage(c)
          \/ LM_ReadManifest(c)
          \/ LM_ReadConfig(c)
          \/ LM_CacheRead(c)
          \/ LM_FetchLayer(c)
          \/ LM_Precompile(c)
          \/ SC_Lease(c)
          \/ SC_Write(c)
          \/ SC_StatResponse(c)
          \/ SC_CommitResponse(c)
          \/ LeaseGuard_drop(c)
          \/ LM_UpdateImage(c)
          \/ LM_GetInfo(c)
          \/ LM_UpdateInfo(c)
          \/ LM_Drop(c)
    \/ OtherClientLabelsImage
    \/ OtherClientLabelsContent
    \/ OtherClientRetargets

SpecShared == InitShared /\ [][NextShared]_vars

\* --------------------------------------- recomputing a removed artifact
\* The shim of an engine whose precompile is not reproducible runs for a
\* wasm image of one layer, and another process removes cached artifacts.
NextRelabel ==
    \/ \E c \in Runners :
          \/ \E id \in ContainerIds : LM_GetContainer(c, id, Unreproducible)
          \/ RunStep(c)
    \/ \E d \in LabelledDigests : RemoveContent(d)

SpecRelabel == InitShared /\ [][NextRelabel]_vars

\* -------------------------------------- two shims of one engine, two images
\* Two pulled images that share their config: one of a wasm layer, the other
\* of a tar layer and another wasm layer; neither has a label.
InitTwoImages ==
    /\ LET manifest == ManifestBytes(1, <<1>>)
           other == ManifestBytes(1, <<2, 1>>)
           blobs == {manifest, other, ConfigBytes(1), LayerBytes(1),
                     LayerBytes(2)}
       IN  /\ store = Stored(blobs)
           /\ contentLabels = {<<ContentDigest(b), {}>> : b \in blobs}
           /\ images = {<<ImageName,
                          Image(ImageName, Target(ContentDigest(manifest)),
                                {})>>,
                        <<OtherImageName,
                          Image(OtherImageName, Target(ContentDigest(other)),
                                {})>>}
    /\ leases = {}
    /\ ingest = [c \in Clients |-> <<>>]
    /\ pc = [c \in Clients |-> "idle"]
    /\ sc = [c \in Clients |-> NoFrame]
    /\ guards = [c \in Clients |-> {}]
    /\ calls = [c \in Clients |-> <<>>]
    /\ last = NoLast
    /\ saved = {}
    /\ known = {}
    /\ nops = 0
    /\ lm = [c \in Clients |-> NoRun]
    /\ ntampers = 0

\* The container of each shim: the first runs the one image, the second the
\* other.
ShimContainer(c) == IF c = 1 THEN <<"c1">> ELSE OtherContainerId

\* Two shims of the same engine run load_modules at the same time, each for
\* its own image.
NextTwoImages ==
    \E c \in Clients :
       \/ LM_GetContainer(c, ShimContainer(c), Wasmtime)
       \/ RunStep(c)

SpecTwoImages == InitTwoImages /\ [][NextTwoImages]_vars

\* ------------------------------------------------ load_components, alone
\* The steps of a load_components after its call.
ComponentsStep(c) ==
    \/ LC_GetImage(c)
    \/ LC_ReadManifest(c)
    \/ LC_ReadConfig(c)
    \/ LC_FetchLayer(c)

\* A pulled image of any architecture and layers: with no label, or, when
\* it has wasm layers to compile, as a successful load_modules of the shim
\* of engine Wasmtime leaves it (artifact stored, cache label, GC reference).
InitComponents ==
    /\ \E a \in ArchCodes, types \in BytesUpTo(LayerCodes, MaxLayers),
          ran \in BOOLEAN :
          LET manifest == ManifestBytes(a, types)
              blobs == {manifest, ConfigBytes(a)}
                       \cup {LayerBytes(j) : j \in 1..Len(types)}
              wasm == SelectSeq([j \in 1..Len(types) |-> j],
                                LAMBDA j : types[j] = 1)
              artifact == Precompile(Wasmtime,
                                     [i \in 1..Len(wasm) |-> LayerBytes(wasm[i])])
              key == PrecompileId(Wasmtime)[2]
          IN  IF ran
              THEN /\ a = 1
                   /\ wasm # <<>>
                   /\ store = Stored(blobs \cup {artifact})
                   /\ contentLabels =
                          {<<ContentDigest(b), {}>> : b \in blobs \ {manifest}}
                          \cup {<<ContentDigest(manifest),
                                  {<<GC_REF_LABEL, ContentDigest(artifact)>>}>>,
                                <<ContentDigest(artifact),
                                  {<<key, ContentDigest(manifest)>>}>>}
                   /\ images = {<<ImageName,
                                  Image(ImageName,
                                        Target(ContentDigest(manifest)),
                                        {<<key, ContentDigest(artifact)>>})>>}
              ELSE /\ store = Stored(blobs)
                   /\ contentLabels = {<<ContentDigest(b), {}>> : b \in blobs}
                   /\ images = {<<ImageName,
                                  Image(ImageName,
                                        Target(ContentDigest(manifest)),
                                        {})>>}
    /\ leases = {}
    /\ ingest = [c \in Clients |-> <<>>]
    /\ pc = [c \in Clients |-> "idle"]
    /\ sc = [c \in Clients |-> NoFrame]
    /\ guards = [c \in Clients |-> {}]
    /\ calls = [c \in Clients |-> <<>>]
    /\ last = NoLast
    /\ saved = {}
    /\ known = {}
    /\ nops = 0
    /\ lm = [c \in Clients |-> NoRun]
    /\ ntampers = 0

\* A shim calls load_components with any engine while another process
\* removes a content of the store.
NextComponents ==
    \/ \E c \in Runners :
          \/ \E id \in ContainerIds, engine \in Engines :
                LC_GetContainer(c, id, engine)
          \/ ComponentsStep(c)
    \/ \E d \in {p[1] : p \in store} : RemoveContent(d)

SpecComponents == InitComponents /\ [][NextComponents]_vars

\* ---------------------------------------------------------------- helpers
IsSave == last.res.op = "save_content"
IsRead == last.res.op = "read_content"
Sends(trace, kind) == \E i \in 1..Len(trace) : trace[i][1] = kind

\* The number of guards of lease_id that are alive: held by a caller, or
\* local to a save_content in flight.
LiveGuards(lease_id) ==
    Cardinality({<<c, g>> \in Clients \X UNION {guards[x] : x \in Clients} :
                    g \in guards[c] /\ g.lease_id = lease_id})
    + Cardinality({c \in Clients : sc[c].lease_id = lease_id})
    + Cardinality({c \in Clients :
                      lm[c].precompiled_content.lease_id = lease_id})

\* -------------------------------------------------------------------- C1
\* C1  Round trip.  The content of every digest that a successful
\* save_content(B) returned, and that was not deleted since, is exactly B;
\* and a read_content of such a digest returns exactly B, or fails only
\* because the daemon failed the read request (never NotFound, never other
\* bytes).
C1_RoundTrip ==
    /\ \A p \in saved : MapHas(store, p[1]) /\ MapGet(store, p[1]) = p[2]
    /\ IsRead =>
          \A p \in saved :
             p[1] = last.res.arg =>
                \/ last.res.ok /\ last.res.bytes = p[2]
                \/ ~last.res.ok /\ last.res.err = RpcError(Unavailable)

\* A read of a saved two-byte content returned its bytes.
C1_Witness ==
    /\ IsRead /\ last.res.ok
    /\ Len(last.res.bytes) = 2
    /\ \E p \in saved : p[1] = last.res.arg /\ p[2] = last.res.bytes


\* -------------------------------------------------------------------- C2
\* C2  Single writer per reference label.  At no time are two guards of the
\* same reference alive; and a save_content that asks for its lease while a
\* guard of its reference is alive (held by the same or by another client)
\* fails at the lease creation, having sent nothing but the lease request:
\* no stat and no commit.  (Leases do not expire within the model.)
C2_SingleWriter ==
    /\ \A l \in TestLabels : LiveGuards(SaveReference(l)) <= 1
    /\ (IsSave /\ last.held) =>
          /\ ~last.res.ok
          /\ last.why \in {"lease_exists", "transport"}
          /\ last.calls = <<Call("leases.create", SaveReference(last.label))>>

\* A save_content of another client was refused while a caller held the
\* WriteContent of the same label.
C2_Witness ==
    /\ IsSave /\ last.held /\ last.why = "lease_exists"
    /\ \E c \in Clients \ {last.client} :
          \E g \in guards[c] : g.lease_id = SaveReference(last.label)

\* -------------------------------------------------------------------- C3
\* C3  (as claimed)  A save_content refused because the lease of its label is
\* still open returns an error of another kind than the errors returned for
\* a transport failure and for a verification failure.
C3_DistinctConflict ==
    (IsSave /\ last.why = "lease_exists") =>
        last.res.err.variant \notin
            {RpcError(Unavailable).variant,
             ValidateCommit([offset |-> 0, digest |-> <<>>], 1, <<"x">>).err.variant}

\* -------------------------------------------------------------------- C4
\* C4  Idempotent write.  A save_content answered AlreadyExists at the stat
\* succeeds without a commit request and without a data byte on the stream.
\* A save_content of bytes that an earlier save_content under the same label
\* stored (and nobody deleted since) returns the same digest that way, or
\* fails because the daemon refused or failed the lease or the stat request
\* (the lease is still open, or the transport failed); it never sends a
\* commit.
C4_IdempotentWrite ==
    /\ (IsSave /\ last.why = "exists") =>
          /\ last.res.ok
          /\ ~Sends(last.calls, "content.write:commit")
          /\ last.wire = <<>>
    /\ (IsSave /\ last.rewrite) =>
          \/ /\ last.res.ok /\ last.why = "exists"
             /\ \A p \in saved :
                   (p[2] = last.data /\ p[3] = last.label) =>
                       last.res.digest = p[1]
          \/ /\ ~last.res.ok
             /\ last.why \in {"lease_exists", "transport", "no_lease"}
             /\ ~Sends(last.calls, "content.write:commit")

\* The second write of the same two bytes under the same label succeeded
\* after the first guard was released.
C4_Witness ==
    /\ IsSave /\ last.rewrite /\ last.res.ok
    /\ Len(last.data) = 2
    /\ Cardinality(UNION {guards[c] : c \in Clients}) = 1

\* -------------------------------------------------------------------- C5
\* C5  Verification enforcement.  When the response to the commit reports an
\* offset other than the length of the data, or a digest other than the
\* locally computed one, save_content returns an error and its caller gets no
\* WriteContent, whatever the resume offset was.
C5_VerificationEnforced ==
    (/\ IsSave /\ last.resp.present
     /\ \/ last.resp.offset # Len(last.data)
        \/ last.resp.digest # <<"sha256:">> \o digest(last.data)) =>
        /\ ~last.res.ok
        /\ last.why = "verify"
        /\ \A g \in guards[last.client] :
              g.lease_id # SaveReference(last.label)

\* A resumed write (offset 1) whose response had the right byte count and a
\* wrong digest was rejected.
C5_Witness ==
    /\ IsSave /\ last.resp.present /\ ~last.res.ok
    /\ last.offset = 1
    /\ last.resp.offset = Len(last.data)
    /\ last.resp.digest # <<"sha256:">> \o digest(last.data)

\* -------------------------------------------------------------------- C6
\* C6  Every successful save_content returns "sha256:" followed by the hash
\* of its input bytes, on the commit path and on the AlreadyExists path; the
\* WriteContent the caller gets carries that digest.
C6_LocalDigest ==
    (IsSave /\ last.res.ok) =>
        /\ last.res.digest = <<"sha256:">> \o digest(last.data)
        /\ \E g \in guards[last.client] :
              /\ g.lease_id = SaveReference(last.label)
              /\ g.digest = last.res.digest

\* A write resumed at offset 1 was committed and returned.
C6_Witness ==
    /\ IsSave /\ last.res.ok /\ last.resp.present
    /\ last.offset = 1 /\ Len(last.data) = 2

\* ------------------------------------------------- helpers for load_modules
IsLoad == last.res.op = "load_modules"

\* The key under which the engine of the finished run caches its artifact.
RunKey == precompile_label(last.run.engine.name,
                           last.run.engine.can_precompile.value)

\* The image of the finished run carried, when the run read the image
\* record, the cache key of an engine that can precompile, and the run got
\* past the architecture gate.
RunLabelled ==
    /\ last.run.engine.can_precompile.some
    /\ MapHas(last.run.labels_read, RunKey)
    /\ last.run.platform.architecture = "wasm"

\* The requests every run starts with, up to the read of the config blob.
Resolution ==
    <<Call("containers.get", last.run.container),
      Call("images.get", ContainerImage(last.run.container)),
      Call("content.read", last.run.image_digest),
      Call("content.read", last.run.manifest.config.digest)>>

\* The descriptors of the manifest's layers whose media type the engine
\* declares supported, in manifest order, and their digests and contents.
RunSupported ==
    SelectSeq(last.run.manifest.layers,
              LAMBDA x : MediaTypeToString(x.media_type)
                             \in last.run.engine.supported_layers_types)
RunSupportedDigests == [i \in 1..Len(RunSupported) |-> RunSupported[i].digest]
RunSupportedBytes ==
    [i \in 1..Len(RunSupported) |-> MapGet(store, RunSupported[i].digest)]

\* The digests of the content reads of a trace, in order.
ReadDigests(trace) ==
    LET reads == SelectSeq(trace, LAMBDA x : x[1] = "content.read")
    IN  [i \in 1..Len(reads) |-> reads[i][2]]

IsPrefix(s, t) == Len(s) <= Len(t) /\ s = SubSeq(t, 1, Len(s))

\* -------------------------------------------------------------------- C7
\* C7  Cache hit.  A run looks into the cache exactly when the engine can
\* precompile and the image carries the engine's cache key.  When the read
\* of the labelled digest succeeds, load_modules returns Ok with exactly one
\* WasmLayer, the bytes stored under the labelled digest paired with the
\* image's config descriptor, and the decoded platform; and the requests of
\* the run are the resolution of the image and that one read: no layer
\* read, no precompile, no lease, no write, no update of an image or content
\* label.
C7_CacheHit ==
    IsLoad =>
       /\ last.run.lookup \in {"hit", "miss"} <=> RunLabelled
       /\ last.run.lookup = "hit" =>
             LET d == MapGet(last.run.labels_read, RunKey)
             IN  /\ last.res.ok
                 /\ MapHas(store, d)
                 /\ last.res.layers =
                        <<WasmLayer(last.run.manifest.config, MapGet(store, d))>>
                 /\ last.run.manifest.config.digest =
                        ContentDigest(MapGet(store,
                                             last.run.manifest.config.digest))
                 /\ last.res.platform = last.run.platform
                 /\ last.calls =
                        Append(Resolution, Call("content.read", d))

C7_Witness ==
    /\ IsLoad /\ last.run.lookup = "hit" /\ last.res.ok
    /\ Len(last.res.layers) = 1
    /\ Len(RunSupported) = 2

\* -------------------------------------------------------------------- C8
\* C8  Cache miss on tamper.  When the image's cache key names a digest whose
\* content is not in the store, the failed read does not end the run: a run
\* that fails has made a later request, and a run that succeeds has read
\* every supported layer, called precompile, taken the lease and written
\* and committed the artifact, and returns it as the one layer.  Unless
\* content was removed again while the run went on, the image's cache key
\* then names a digest whose content is in the store, and that content is
\* the artifact returned.
C8_MissOnTamper ==
    (IsLoad /\ last.run.stale) =>
       /\ last.run.lookup = "miss"
       /\ ~last.res.ok => Len(last.calls) > Len(Resolution) + 1
       /\ last.res.ok =>
             /\ last.run.fetched = RunSupportedDigests
             /\ last.run.fetched # <<>>
             /\ Sends(last.calls, "engine.precompile")
             /\ Sends(last.calls, "leases.create")
             /\ Sends(last.calls, "content.write:commit")
             /\ Sends(last.calls, "images.update")
             /\ last.res.layers =
                    <<WasmLayer(last.run.manifest.config,
                                Precompile(last.run.engine, last.run.layers))>>
             /\ ~last.run.disturbed =>
                   LET labels == MapGet(images, last.run.image.name).labels
                   IN  /\ MapHas(labels, RunKey)
                       /\ MapHas(store, MapGet(labels, RunKey))
                       /\ MapGet(store, MapGet(labels, RunKey)) =
                              last.res.layers[1].layer

C8_Witness ==
    /\ IsLoad /\ last.run.stale /\ last.res.ok /\ ~last.run.disturbed
    /\ Sends(last.calls, "content.write:commit")
    /\ MapHas(store, MapGet(MapGet(images, last.run.image.name).labels, RunKey))

\* -------------------------------------------------------------------- C9
\* C9  Architecture gate.  When the platform decoded from the config blob is
\* not wasm, load_modules returns Ok with no layer and that platform, and
\* the requests of the run are the resolution of the image alone: no layer
\* read, no cache read, no precompile, no lease, no write, no label update,
\* whatever labels the image carries and whatever the engine.
C9_ArchitectureGate ==
    (IsLoad /\ last.run.platform.architecture \notin {"", "wasm"}) =>
       /\ last.res.ok
       /\ last.res.layers = <<>>
       /\ last.res.platform =
              Platform_from_slice(MapGet(store, last.run.manifest.config.digest))
       /\ last.res.platform.architecture = "amd64"
       /\ last.calls = Resolution

C9_Witness ==
    /\ IsLoad /\ last.res.ok
    /\ last.run.platform.architecture = "amd64"
    /\ last.run.labels_read # {}
    /\ last.run.engine.can_precompile.some
    /\ Len(RunSupported) >= 1

\* ------------------------------------------------------------------- C10
\* C10  Layer filtering.  The layer reads of a run are, in manifest order,
\* reads of layers whose media type is in the engine's supported set, and no
\* read names a layer of another media type.  A run that succeeds past the
\* cache lookup has read every supported layer; the bytes it read are the
\* layers' contents in manifest order, and they are what precompile is given
\* or, with an engine that cannot precompile, what is returned.
C10_LayerFiltering ==
    IsLoad =>
       /\ IsPrefix(last.run.fetched, RunSupportedDigests)
       /\ \A i \in 1..Len(last.run.manifest.layers) :
             LET x == last.run.manifest.layers[i]
             IN  (\E k \in 1..Len(last.calls) :
                     last.calls[k] = Call("content.read", x.digest))
                 => MediaTypeToString(x.media_type)
                        \in last.run.engine.supported_layers_types
       /\ LET reads == ReadDigests(last.calls)
              n == Len(reads) - Len(last.run.fetched)
          IN  /\ n \in 0..3
              /\ SubSeq(reads, n + 1, Len(reads)) = last.run.fetched
       /\ (last.res.ok /\ last.run.platform.architecture = "wasm"
             /\ last.run.lookup # "hit") =>
             /\ last.run.fetched = RunSupportedDigests
             /\ last.run.layers = RunSupportedBytes
             /\ IF last.run.layers = <<>>
                THEN last.res.layers = <<>>
                ELSE IF last.run.engine.can_precompile.some
                THEN /\ \E k \in 1..Len(last.calls) :
                           last.calls[k] =
                               Call("engine.precompile", RunSupportedDigests)
                     /\ last.res.layers =
                            <<WasmLayer(last.run.manifest.config,
                                        Precompile(last.run.engine,
                                                   RunSupportedBytes))>>
                ELSE last.res.layers =
                         [i \in 1..Len(RunSupported) |->
                             WasmLayer(last.run.manifest.config,
                                       RunSupportedBytes[i])]

C10_Witness ==
    /\ IsLoad /\ last.res.ok
    /\ Len(last.run.manifest.layers) = 3
    /\ Len(last.run.fetched) = 2
    /\ ~last.run.engine.can_precompile.some
    /\ Len(last.res.layers) = 2

\* ------------------------------------------------------------------- C11
\* C11  No-precompile path.  A run with an engine whose can_precompile is
\* None never reads a labelled digest, whatever labels the image carries
\* (a label with the empty key included), and sends no precompile, lease,
\* write or label-update request.  When such a run on a wasm image
\* succeeds, its requests are the resolution of the image and one read per
\* supported layer, and it returns one WasmLayer per supported manifest
\* layer, in manifest order, each the layer's content paired with the
\* image's config descriptor.
C11_NoPrecompilePath ==
    (IsLoad /\ ~last.run.engine.can_precompile.some) =>
       /\ last.run.lookup \in {"none", "absent"}
       /\ ~last.run.can_precompile
       /\ \A k \in 1..Len(last.calls) :
             last.calls[k][1] \in {"containers.get", "images.get", "content.read"}
       /\ (last.res.ok /\ last.run.platform.architecture = "wasm") =>
             /\ last.calls =
                    Resolution
                    \o [i \in 1..Len(RunSupported) |->
                           Call("content.read", RunSupported[i].digest)]
             /\ last.res.layers =
                    [i \in 1..Len(RunSupported) |->
                        WasmLayer(last.run.manifest.config,
                                  MapGet(store, RunSupported[i].digest))]
             /\ last.res.platform = last.run.platform

C11_Witness ==
    /\ IsLoad /\ last.res.ok
    /\ ~last.run.engine.can_precompile.some
    /\ MapHas(last.run.labels_read, <<>>)
    /\ MapHas(store, MapGet(last.run.labels_read, <<>>))
    /\ Len(last.run.manifest.layers) = 3
    /\ Len(last.res.layers) = 2

\* ------------------------------------------------------------------- C12
\* The positions of the requests of one kind in a trace.
Positions(trace, kind) == {k \in 1..Len(trace) : trace[k][1] = kind}

\* C12  Lease release on every exit path.  When load_modules hands a Result
\* to its caller, by success or by error, and the run was granted a lease
\* (its lease request was followed by the stat of the write), then the last
\* request of the run is the revoke of that lease, it is the only revoke,
\* and no guard of the lease is alive in the client: a failure of
\* save_content after the lease (stat error, missing response, rejected
\* commit, verification error, unwinding panic) and every later exit of
\* load_modules drop the guard before the Result is handed over.  A run
\* that was granted no lease sends no revoke.  The revoke is best effort:
\* the daemon may fail it.  (A process that aborts on a panic hands over no
\* Result.)
C12_LeaseReleased ==
    (IsLoad /\ last.why # "abort") =>
       LET creates == Positions(last.calls, "leases.create")
           revokes == Positions(last.calls, "leases.delete")
           granted == \E k \in creates : k < Len(last.calls)
       IN  /\ Cardinality(creates) <= 1
           /\ granted =>
                 /\ revokes = {Len(last.calls)}
                 /\ \A k \in creates :
                       last.calls[Len(last.calls)][2] = last.calls[k][2]
                 /\ last.calls[Len(last.calls)][2] =
                        SaveReference(last.run.precompile_id)
                 /\ LiveGuards(SaveReference(last.run.precompile_id)) = 0
           /\ ~granted => revokes = {}
           /\ lm[last.client].precompiled_content = NoWriteContent
           /\ sc[last.client].lease_id = <<>>
           /\ guards[last.client] = {}

C12_Witness ==
    /\ IsLoad /\ ~last.res.ok /\ last.why = "verify"
    /\ Sends(last.calls, "content.write:commit")
    /\ last.calls[Len(last.calls)][1] = "leases.delete"

C12_WitnessSuccess ==
    /\ IsLoad /\ last.res.ok /\ last.why = "precompiled"
    /\ last.calls[Len(last.calls)][1] = "leases.delete"

\* ------------------------------------------------------------------- C13
\* The run of the last step precompiled and succeeded.
PrecompiledRun ==
    /\ IsLoad /\ last.res.ok
    /\ Sends(last.calls, "engine.precompile")

\* C13  Labels after a precompile.  When a run that precompiled succeeds,
\* the image record on the daemon carries the label
\* runwasi.io/precompiled/<engine name>/<precompile identity>, its value is
\* the digest save_content returned for the artifact, which is the sha256
\* digest of the artifact, and the run returns the artifact, paired with the
\* image's config descriptor, as its single layer.
C13_LabelAfterPrecompile ==
    PrecompiledRun =>
       LET labels == MapGet(images, last.run.image.name).labels
           key == <<"runwasi.io/precompiled", "/">> \o last.run.engine.name
                  \o <<"/">> \o last.run.engine.can_precompile.value
           artifact == Precompile(last.run.engine, last.run.layers)
       IN  /\ last.run.engine.can_precompile.some
           /\ MapHas(labels, key)
           /\ MapGet(labels, key) = last.run.precompiled_content.digest
           /\ MapGet(labels, key) = <<"sha256:">> \o digest(artifact)
           /\ last.res.layers =
                  <<WasmLayer(last.run.manifest.config, artifact)>>

C13_Witness ==
    /\ PrecompiledRun
    /\ Len(RunSupported) = 2
    /\ last.run.labels_read # {}
    /\ last.run.lookup = "absent"

\* ------------------------------------------------------------------- C14
\* C14  No partial result on error.  A run that does not succeed hands its
\* caller one error value and no layer, and after the step that failed it
\* sends nothing but the revoke of the lease it holds.  (Violated: a stat
\* response whose offset is outside the data makes the write panic, so the
\* caller gets no error value.)
C14_NoPartialResult ==
    (IsLoad /\ ~last.res.ok) =>
       /\ last.res.err.variant \in {"Containerd", "Decode", "Engine"}
       /\ last.res.layers = <<>>
       /\ pc[last.client] = "idle"
       /\ Positions(last.calls, "leases.delete") \subseteq {Len(last.calls)}

\* ------------------------------------------------------------------- C15
\* The content record of digest m carries the GC-root label naming d.
GCRooted(m, d) ==
    /\ MapHas(contentLabels, m)
    /\ MapHas(MapGet(contentLabels, m), GC_REF_LABEL)
    /\ MapGet(MapGet(contentLabels, m), GC_REF_LABEL) = d

\* Client c is in a precompile run between the return of save_content and
\* its own return, and has not failed.
Protecting(c) ==
    /\ lm[c].precompiled_content.digest # <<>>
    /\ pc[c] = "lm_drop" => lm[c].ret.ok

\* C15  Lease until the GC root.  From the return of save_content (the
\* artifact is committed or was found committed) until load_modules returns
\* successfully, at every instant the lease of the write exists on the
\* daemon or the manifest's content record carries the GC-root label
\* naming the artifact; the lease exists as long as update_info has not
\* completed, and in the requests of a successful run the revoke follows
\* update_info.
C15_LeaseUntilGCRoot ==
    /\ \A c \in Clients :
          Protecting(c) =>
             /\ \/ lm[c].precompiled_content.lease_id \in leases
                \/ GCRooted(lm[c].image_digest,
                            lm[c].precompiled_content.digest)
             /\ pc[c] # "lm_drop" =>
                   lm[c].precompiled_content.lease_id \in leases
             /\ pc[c] = "lm_drop" =>
                   GCRooted(lm[c].image_digest,
                            lm[c].precompiled_content.digest)
    /\ PrecompiledRun =>
          /\ GCRooted(last.run.image_digest,
                      last.run.precompiled_content.digest)
          /\ \A i \in Positions(last.calls, "content.update"),
                k \in Positions(last.calls, "leases.delete") : i < k

C15_Witness ==
    \E c \in Clients :
       /\ Protecting(c)
       /\ pc[c] = "lm_update_info"
       /\ lm[c].precompiled_content.lease_id \in leases
       /\ ~GCRooted(lm[c].image_digest, lm[c].precompiled_content.digest)

\* ------------------------------------------------------------------- C16
\* C16  GC-root label.  When a run that precompiled succeeds, the content
\* record of the image's manifest digest carries the label
\* containerd.io/gc.ref.content.precompile and its value is the digest of
\* the artifact the run wrote.  In every run, an update of the content
\* record's labels comes after the update of the image's labels, which has
\* succeeded and has put the artifact's digest under the cache key.
C16_GCRootLabel ==
    IsLoad =>
       /\ PrecompiledRun =>
             LET labels == MapGet(contentLabels, last.run.image_digest)
                 key == <<"containerd.io/gc.ref.content.precompile">>
             IN  /\ last.run.image_digest =
                        MapGet(images, last.run.image.name).target.digest
                 /\ MapHas(labels, key)
                 /\ MapGet(labels, key) =
                        <<"sha256:">> \o digest(last.res.layers[1].layer)
                 /\ MapGet(labels, key) = last.run.precompiled_content.digest
                 /\ Cardinality(Positions(last.calls, "content.update")) = 1
       /\ \A k \in Positions(last.calls, "content.update") :
             /\ \E i \in Positions(last.calls, "images.update") : i < k
             /\ MapHas(MapGet(images, last.run.image.name).labels,
                       last.run.precompile_id)
             /\ MapGet(MapGet(images, last.run.image.name).labels,
                       last.run.precompile_id) =
                    last.run.precompiled_content.digest

C16_Witness ==
    /\ PrecompiledRun
    /\ last.run.lookup = "miss"
    /\ Sends(last.calls, "content.update")

\* ------------------------------------------------------------------- C17
\* A GC reference key of content: containerd.io/gc.ref.content with any
\* suffix.
IsGCRefKey(key) ==
    key \in {<<"containerd.io/gc.ref.content">>,
             <<"containerd.io/gc.ref.content.precompile">>}

\* C17  Durable protection across runs.  Whenever no run is in progress,
\* every digest that a precompile cache label of an image names is named by
\* a GC reference label on the content record of the image's manifest.
\* (Violated: every engine writes the one key
\* containerd.io/gc.ref.content.precompile, so the run of a second engine
\* replaces the reference to the first engine's artifact.)
C17_DurableProtection ==
    (\A c \in Clients : pc[c] = "idle") =>
       \A p \in images :
          \A l \in p[2].labels :
             IsPrecompileLabel(l[1]) =>
                \E g \in MapGet(contentLabels, p[2].target.digest) :
                   IsGCRefKey(g[1]) /\ g[2] = l[2]

\* ------------------------------------------------------------------- C18
\* The kinds of the requests of a trace, in order.
Kinds(trace) == [k \in 1..Len(trace) |-> trace[k][1]]

WriteOrder == <<"leases.create", "content.write:stat", "content.write:commit">>

\* C18  Write ordering.  Within one save_content the lease request, the
\* stat request and the commit request are sent in this order and at most
\* once each.  The stat request is queued only with the lease held; a
\* commit request is queued or sent only after the response to the stat has
\* been received, with the offset of that response; the commit response is
\* received only after the commit request was sent.
C18_WriteOrdering ==
    /\ \A c \in Clients :
          pc[c] \in {"sc_lease", "sc_write", "sc_stat_resp", "sc_commit_resp",
                     "sc_drop"} =>
             /\ IsPrefix(Kinds(calls[c]), WriteOrder)
             /\ Len(sc[c].chan) <= 1
             /\ \A i \in 1..Len(sc[c].chan) :
                   \* at "sc_drop" the function has returned and the
                   \* channel is gone with its frame
                   pc[c] # "sc_drop" =>
                   IF sc[c].chan[i].action = "Stat"
                   THEN /\ pc[c] = "sc_write"
                        /\ sc[c].lease_id = sc[c].reference
                        /\ Kinds(calls[c]) = <<"leases.create">>
                        /\ ~sc[c].stat.present
                   ELSE /\ pc[c] = "sc_commit_resp"
                        /\ sc[c].stat.present
                        /\ sc[c].chan[i].offset = sc[c].stat.offset
                        /\ Kinds(calls[c]) =
                               <<"leases.create", "content.write:stat">>
             /\ sc[c].stat.present => Sends(calls[c], "content.write:stat")
             /\ Sends(calls[c], "content.write:commit") => sc[c].stat.present
             /\ sc[c].resp.present => Sends(calls[c], "content.write:commit")
    /\ IsSave =>
          /\ \/ IsPrefix(Kinds(last.calls), WriteOrder)
             \/ /\ Kinds(last.calls)[Len(last.calls)] = "leases.delete"
                /\ IsPrefix(SubSeq(Kinds(last.calls), 1, Len(last.calls) - 1),
                            WriteOrder)
          /\ last.stat.present => Sends(last.calls, "content.write:stat")
          /\ Sends(last.calls, "content.write:commit") => last.stat.present
          /\ last.resp.present => Sends(last.calls, "content.write:commit")

C18_Witness ==
    /\ IsSave /\ last.res.ok
    /\ Kinds(last.calls) = WriteOrder
    /\ last.stat.present /\ last.resp.present
    /\ last.stat.offset = 1

\* ------------------------------------------------------------------- C19
\* The bytes of the input from position o (counted from zero) to the end.
Remaining(data, o) == [i \in 1..(Len(data) - o) |-> data[o + i]]

\* C19  Resumable offset.  When the response to the stat reports an offset o
\* with 0 <= o <= len, the commit request carries the offset o, the total
\* len, the expected digest, the single label {label: original_digest} and
\* as data exactly the bytes of the input from position o to the end; the
\* bytes before o are not sent again.
C19_ResumableOffset ==
    /\ \A c \in Clients :
          (/\ pc[c] = "sc_commit_resp"
           /\ sc[c].stat.present
           /\ sc[c].stat.offset \in 0..Len(sc[c].data)) =>
             /\ Len(sc[c].chan) = 1
             /\ LET req == sc[c].chan[1]
                IN  /\ req.action = "Commit"
                    /\ req.offset = sc[c].stat.offset
                    /\ req.total = Len(sc[c].data)
                    /\ req.expected = <<"sha256:">> \o digest(sc[c].data)
                    /\ req.labels = {<<sc[c].label, sc[c].original_digest>>}
                    /\ Cardinality(req.labels) = 1
                    /\ req.data = Remaining(sc[c].data, sc[c].stat.offset)
                    /\ Len(req.data) = Len(sc[c].data) - sc[c].stat.offset
             /\ sc[c].wire = <<>>
    /\ (/\ IsSave
        /\ last.stat.present
        /\ last.stat.offset \in 0..Len(last.data)) =>
          IF Sends(last.calls, "content.write:commit")
          THEN last.wire = Remaining(last.data, last.stat.offset)
          ELSE last.wire = <<>>

C19_Witness ==
    /\ IsSave /\ last.res.ok
    /\ Sends(last.calls, "content.write:commit")
    /\ Len(last.data) = 2
    /\ last.stat.present /\ last.stat.offset = 1
    /\ last.wire = <<last.data[2]>>

\* ------------------------------------------------------------------- C20
\* save_content has returned Ok to the run: the run holds the WriteContent
\* of its artifact.
SaveSucceeded(f) ==
    /\ f.precompiled # <<>>
    /\ f.precompiled_content.digest = <<"sha256:">> \o digest(f.precompiled)
    /\ f.precompiled_content.lease_id = <<"precompile-">> \o f.precompile_id

\* The labels of a record that exists before and after the step differ.
LabelsModified(before, after) ==
    \E p \in before, q \in after : p[1] = q[1] /\ p[2] # q[2]

ImageLabels(m) == {<<p[1], p[2].labels>> : p \in m}

LabelRequests(trace) ==
    Sends(trace, "images.update") \/ Sends(trace, "content.update")

\* A step that modifies the labels of an image or of a content record is
\* the update_image or the update_info of a run whose save_content
\* succeeded; and when save_content returns Ok to a run, the artifact is
\* committed content of the store (commit verified, or AlreadyExists).
C20_LabelStep ==
    /\ \A c \in Clients :
          (~SaveSucceeded(lm[c]) /\ SaveSucceeded(lm'[c])) =>
             /\ <<lm'[c].precompiled_content.digest, lm'[c].precompiled>>
                    \in store'
             /\ Sends(calls'[c], "content.write:stat")
    /\ LabelsModified(ImageLabels(images), ImageLabels(images')) =>
          \E c \in Clients :
             /\ pc[c] = "lm_update_image"
             /\ SaveSucceeded(lm[c])
             /\ Sends(calls[c], "content.write:stat")
    /\ LabelsModified(contentLabels, contentLabels') =>
          \E c \in Clients :
             /\ pc[c] = "lm_update_info"
             /\ SaveSucceeded(lm[c])
             /\ Sends(calls[c], "images.update")

\* update_image and update_info are requested only by a run whose
\* save_content succeeded; a run whose save_content failed returns the
\* error with neither requested.
C20_LabelRequests ==
    /\ \A c \in Clients :
          LabelRequests(calls[c]) =>
             /\ SaveSucceeded(lm[c])
             /\ Sends(calls[c], "content.write:stat")
    /\ IsLoad =>
          /\ LabelRequests(last.calls) =>
                /\ SaveSucceeded(last.run)
                /\ Sends(last.calls, "content.write:stat")
          /\ (/\ Sends(last.calls, "leases.create")
              /\ last.run.precompiled_content.digest = <<>>) =>
                /\ ~last.res.ok
                /\ ~LabelRequests(last.calls)

\* C20  An uncommitted write never acquires a durable label.  update_image
\* with the cache-key label and update_info with the GC-root label are
\* issued only after save_content returned success (commit verified, or
\* AlreadyExists); a run whose save_content fails modifies no label of an
\* image and no label of a content record.
C20_NoLabelBeforeCommit == [][C20_LabelStep /\ C20_LabelRequests']_vars

\* A run that committed, then labelled the image, then the manifest.
C20_Witness ==
    /\ IsLoad /\ last.res.ok
    /\ SaveSucceeded(last.run)
    /\ \E i, j, k \in 1..Len(last.calls) :
          /\ i < j /\ j < k
          /\ last.calls[i][1] = "content.write:commit"
          /\ last.calls[j][1] = "images.update"
          /\ last.calls[k][1] = "content.update"
    /\ MapHas(last.run.image.labels, last.run.precompile_id)

\* A run whose commit was refused: it returns the error with no label.
C20_WitnessFailure ==
    /\ IsLoad /\ ~last.res.ok
    /\ Sends(last.calls, "content.write:commit")
    /\ last.run.precompiled_content.digest = <<>>
    /\ ~LabelRequests(last.calls)
    /\ \A p \in images : ~MapHas(p[2].labels, last.run.precompile_id)

\* ------------------------------------------------------------------- C21
\* Every label of before whose key is not key is a label of after.
KeepsOtherLabels(before, after, key) ==
    \A l \in before : l[1] # key => l \in after

\* The update_image of a run keeps every other label of the image record.
C21_ImageStep ==
    \A c \in Clients :
       (pc[c] = "lm_update_image" /\ pc'[c] = "lm_get_info") =>
          KeepsOtherLabels(MapGet(images, lm[c].image.name).labels,
                           MapGet(images', lm[c].image.name).labels,
                           lm[c].precompile_id)

\* The update_info of a run keeps every other label of the content record.
C21_ContentStep ==
    \A c \in Clients :
       (pc[c] = "lm_update_info" /\ pc'[c] # "lm_update_info"
           /\ contentLabels' # contentLabels) =>
          KeepsOtherLabels(MapGet(contentLabels, lm[c].image_digest),
                           MapGet(contentLabels', lm[c].image_digest),
                           GC_REF_LABEL)

C21_ImageLabelsKept == [][C21_ImageStep]_vars
C21_ContentLabelsKept == [][C21_ContentStep]_vars

\* C21  (as claimed)  Label updates never clobber unrelated labels.  After
\* the update_image and the update_info of a run, every label that was on
\* the daemon's record immediately before the update, other than the one
\* key the run writes, is still on the record with the same value, even
\* when another client changed the labels of the record between the run's
\* read of the record and its update.
C21_NoClobber == [][C21_ImageStep /\ C21_ContentStep]_vars

\* ------------------------------------------------------------------- C22
\* The update requests of a trace.
UpdateRequests(trace) ==
    {trace[i][2] : i \in {k \in 1..Len(trace) :
                            trace[k][1] \in {"images.update", "content.update"}}}

\* Every update request carries the mask of the one path "labels".
C22_Masks ==
    /\ \A c \in Clients :
          \A req \in UpdateRequests(calls[c]) : req.update_mask = <<"labels">>
    /\ IsLoad =>
          \A req \in UpdateRequests(last.calls) : req.update_mask = <<"labels">>

\* A step of a run that sends an update leaves the name and the target of
\* every image record, and the digest and the bytes of every content, as
\* they were.
C22_Frame ==
    \A c \in Clients :
       (pc[c] \in {"lm_update_image", "lm_update_info"} /\ pc'[c] # pc[c]) =>
          /\ {<<p[1], p[2].name, p[2].target>> : p \in images'}
                 = {<<p[1], p[2].name, p[2].target>> : p \in images}
          /\ store' = store
          /\ MapKeys(contentLabels') = MapKeys(contentLabels)

C22_FrameKept == [][C22_Frame]_vars

\* C22  Field-masked updates.  Every update_info and update_image request
\* carries an update mask of exactly the path "labels", so no update changes
\* a field of a content or image record other than its labels: digest,
\* size, name and target stay as they are on the daemon.
C22_FieldMask == [][C22_Frame /\ C22_Masks']_vars

\* The run updated the labels of an image record that another client had
\* pointed at another manifest since the run read it: the record keeps the
\* target of the other client and has the label of the run.
C22_Witness ==
    \E c \in Clients :
       /\ pc[c] = "lm_get_info"
       /\ UpdateRequests(calls[c]) # {}
       /\ lm[c].updated.target # lm[c].image.target
       /\ lm[c].updated.target = Target(ContentDigest(NextVersion))
       /\ MapHas(lm[c].updated.labels, lm[c].precompile_id)

\* ------------------------------------------------------------------- C23
\* runwasi.io/precompiled/<engine name>/<identity reported by can_precompile>
EngineKey(engine) ==
    <<"runwasi.io/precompiled", "/">> \o engine.name \o <<"/">>
        \o engine.can_precompile.value

\* The engine whose precompile made the artifact.
MadeBy(artifact, engine) == artifact # <<>> /\ artifact[1] = engine.tag

\* C23  Cache isolation by engine identity.  The cache lookup uses exactly
\* the key runwasi.io/precompiled/<engine name>/<identity reported by
\* can_precompile>: the digest it reads is the value of that key on the
\* image.  A run never returns as a cache hit an artifact that is labelled
\* on the image under another engine name or another precompile identity:
\* the artifact of a hit is the content named under the run's own key, it
\* was made by the run's engine, and it is the content of no digest
\* labelled under another key.
C23_CacheIsolation ==
    /\ \A c \in Clients :
          pc[c] = "lm_cache_read" =>
             /\ lm[c].precompile_id = EngineKey(lm[c].engine)
             /\ MapHas(lm[c].image.labels, EngineKey(lm[c].engine))
    /\ (IsLoad /\ last.run.lookup \in {"hit", "miss"}) =>
          /\ MapHas(last.run.labels_read, EngineKey(last.run.engine))
          /\ last.calls[Len(Resolution) + 1] =
                 Call("content.read",
                      MapGet(last.run.labels_read, EngineKey(last.run.engine)))
    /\ (IsLoad /\ last.run.lookup = "hit") =>
          LET own == MapGet(last.run.labels_read, EngineKey(last.run.engine))
              artifact == last.res.layers[1].layer
          IN  /\ Len(last.res.layers) = 1
              /\ own = ContentDigest(artifact)
              /\ MadeBy(artifact, last.run.engine)
              /\ \A l \in last.run.labels_read :
                    l[1] # EngineKey(last.run.engine) =>
                       l[2] # ContentDigest(artifact)

\* A hit of the shim of one engine on an image that also carries the cache
\* label of another engine.
C23_Witness ==
    /\ IsLoad /\ last.run.lookup = "hit" /\ last.res.ok
    /\ \E l \in last.run.labels_read :
          /\ l[1] = EngineKey(Wasmer)
          /\ l[1] # EngineKey(last.run.engine)
          /\ MapHas(store, l[2])
    /\ MadeBy(last.res.layers[1].layer, last.run.engine)

\* The labelled image of InitEngines is what a run of the shim of engine
\* Wasmer leaves behind.
C23_InitReachable ==
    ~(/\ IsLoad /\ last.res.ok /\ last.run.engine = Wasmer
      /\ nops = 1 /\ ntampers = 0
      /\ LET manifest == MapGet(store, last.run.image_digest)
             artifact == last.res.layers[1].layer
             key == PrecompileId(Wasmer)[2]
         IN  /\ MapGet(contentLabels, ContentDigest(manifest)) =
                    {<<GC_REF_LABEL, ContentDigest(artifact)>>}
             /\ MapGet(contentLabels, ContentDigest(artifact)) =
                    {<<key, ContentDigest(manifest)>>}
             /\ MapGet(images, ImageName).labels =
                    {<<key, ContentDigest(artifact)>>}
             /\ leases = {})

\* ------------------------------------------------------------------- C24
\* The data of the messages of a stream, joined in the order of arrival.
RECURSIVE Joined(_)
Joined(s) ==
    IF s = <<>> THEN <<>>
    ELSE Joined(SubSeq(s, 1, Len(s) - 1)) \o s[Len(s)].data

\* C24  read_content returns the concatenation of all chunks of the
\* response stream in the order they arrive.  If the request fails or an
\* item of the stream is a failure, the whole read returns an error and
\* none of the bytes already received.
C24_ReadConcat ==
    IsRead =>
       LET s == last.stream
           failed == {i \in 1..Len(s) : ~s[i].ok}
       IN  /\ last.res.ok <=> (last.opened /\ failed = {})
           /\ last.res.ok => last.res.bytes = Joined(s)
           /\ ~last.res.ok =>
                 /\ last.res.bytes = <<>>
                 /\ last.res.err.variant = "Containerd"
           /\ failed # {} =>
                 \E i \in failed :
                    /\ \A k \in failed : i <= k
                    /\ last.res.err = RpcError(s[i].status)

\* A read whose stream failed after a chunk with bytes had arrived.
C24_Witness ==
    /\ IsRead /\ last.opened /\ ~last.res.ok
    /\ Len(last.stream) >= 2
    /\ last.stream[1].ok /\ last.stream[1].data # <<>>
    /\ last.res.bytes = <<>>

\* A read of two chunks returned them in order.
C24_WitnessOrder ==
    /\ IsRead /\ last.res.ok
    /\ Len(last.stream) = 2
    /\ last.stream[1].data # last.stream[2].data
    /\ last.res.bytes = last.stream[1].data \o last.stream[2].data

\* ------------------------------------------------------------------- C25
\* No request of the trace is sent twice.
NoRetry(trace) ==
    \A i, j \in 1..Len(trace) : i # j => trace[i] # trace[j]

\* The finished run handed its caller Ok or one Err.
C25_Outcome ==
    IsLoad =>
       \/ last.res.ok /\ last.res.err = NoError
       \/ ~last.res.ok /\ last.res.err.variant \in {"Containerd", "Engine",
                                                     "Decode", "Json", "Oci"}

C25_NoRetry ==
    /\ \A c \in Clients : NoRetry(calls[c])
    /\ IsLoad => NoRetry(last.calls)

\* C25  (as claimed)  Termination.  Every load_modules run reaches a
\* terminal outcome, Ok (possibly with an empty layer set) or a single Err,
\* provided the daemon answers or fails every request and stream; no step of
\* the run is repeated and no request is retried.
C25_Termination ==
    /\ [](C25_Outcome /\ C25_NoRetry)
    /\ \A c \in Runners : (pc[c] # "idle") ~> (pc[c] = "idle")

\* Every run ends: with Ok, with one Err, or with the panic of the slice.
C25_EndsOrPanics ==
    /\ [](C25_NoRetry)
    /\ [](IsLoad /\ ~C25_Outcome => last.res.err.variant = "panic")
    /\ \A c \in Runners : (pc[c] # "idle") ~> (pc[c] \in {"idle", "panicked"})

\* ------------------------------------------------------------------- C26
\* C26  Empty supported set.  When no layer of the manifest has a media type
\* the engine supports, a load_modules that read the manifest and the config
\* of a wasm image returns Ok with an empty layer set and the platform of
\* the config; even when the engine can precompile it calls neither
\* precompile nor save_content and updates no label: it sends no request
\* after the read of the config.
C26_EmptySupportedSet ==
    /\ \A c \in Clients :
          (\/ pc[c] \in {"sc_lease", "sc_write", "sc_stat_resp",
                         "sc_commit_resp", "sc_drop", "lm_update_image",
                         "lm_get_info", "lm_update_info", "lm_drop"}
           \/ Sends(calls[c], "engine.precompile")) =>
             \E i \in 1..Len(lm[c].manifest.layers) :
                MediaTypeToString(lm[c].manifest.layers[i].media_type)
                   \in lm[c].engine.supported_layers_types
    /\ (/\ IsLoad
        /\ last.run.platform.architecture = "wasm"
        /\ RunSupported = <<>>) =>
          /\ last.res.ok
          /\ last.res.layers = <<>>
          /\ last.res.platform = last.run.platform
          /\ last.calls = Resolution
          /\ \A k \in {"engine.precompile", "leases.create",
                        "content.write:stat", "content.write:commit",
                        "images.update", "content.update"} :
                ~Sends(last.calls, k)

\* A run of an engine that can precompile, for a wasm image whose layers
\* are all of another media type.
C26_Witness ==
    /\ IsLoad /\ last.res.ok /\ last.res.layers = <<>>
    /\ last.run.platform.architecture = "wasm"
    /\ last.run.engine.can_precompile.some
    /\ Len(last.run.manifest.layers) >= 1
    /\ RunSupported = <<>>

\* ------------------------------------------------------------------- C27
\* The finished run found the content of its cache label missing, computed
\* and committed an artifact, and stopped with an error before update_image
\* succeeded.
StoppedBeforeRelabel ==
    /\ IsLoad /\ ~last.res.ok
    /\ last.run.lookup = "miss" /\ last.run.stale
    /\ SaveSucceeded(last.run)
    /\ last.run.updated = NoImage

\* The run is between its update_image and its update_info.
BetweenLabels(c) == pc[c] \in {"lm_get_info", "lm_update_info"}

\* No step writes a label of an image and a label of a content record.
C27_SeparateCalls ==
    ~(ImageLabels(images') # ImageLabels(images)
         /\ LabelsModified(contentLabels, contentLabels'))

C27_Left ==
    /\ StoppedBeforeRelabel =>
          LET labels == MapGet(images, last.run.image.name).labels
              old == MapGet(last.run.labels_read, last.run.precompile_id)
              new == last.run.precompiled_content.digest
          IN  /\ labels = last.run.labels_read
              /\ MapGet(labels, last.run.precompile_id) = old
              /\ ~Sends(last.calls, "content.update")
              \* unless another process removed content during the run
              /\ ~last.run.disturbed =>
                    /\ MapHas(store, new)
                    /\ MapGet(store, new) = last.run.precompiled
              /\ new # old => /\ ~MapHas(store, old)
                              /\ \A l \in labels : l[2] # new
    /\ \A c \in Clients :
          BetweenLabels(c) =>
             /\ MapGet(MapGet(images, lm[c].image.name).labels,
                       lm[c].precompile_id) = lm[c].precompiled_content.digest
             /\ ~Sends(calls[c], "content.update")

C27_WitnessBetween ==
    \E c \in Clients :
       /\ BetweenLabels(c)
       /\ lm[c].lookup = "miss" /\ lm[c].stale
       /\ MapGet(MapGet(images, lm[c].image.name).labels, lm[c].precompile_id)
              = lm[c].precompiled_content.digest
       /\ ~GCRooted(lm[c].image_digest, lm[c].precompiled_content.digest)

\* ------------------------------------------------------------------- C28
\* The finished call is a save_content, or a load_modules that called it,
\* whose stat was answered with an offset outside the data.
OffsetOutOfRange ==
    /\ IsSave \/ IsLoad
    /\ last.stat.present
    /\ last.stat.offset < 0 \/ last.stat.offset > Len(last.data)

\* C28  The offset of the stat response is used unchecked.  When the daemon
\* reports an offset that is negative or greater than the length of the
\* data, save_content returns no Err: it panics at the slice of the data,
\* before any commit request is sent, and the run ends with the panic
\* instead of an error value.  A commit request is only ever queued with an
\* offset inside the data.
C28_UncheckedOffset ==
    /\ OffsetOutOfRange =>
          /\ ~last.res.ok
          /\ last.res.err.variant = "panic"
          /\ last.why \in {"panic", "abort"}
          /\ ~Sends(last.calls, "content.write:commit")
          /\ last.wire = <<>>
          /\ ~last.resp.present
    /\ \A c \in Clients :
          /\ \A i \in 1..Len(sc[c].chan) :
                sc[c].chan[i].action = "Commit" =>
                   sc[c].chan[i].offset \in 0..Len(sc[c].data)
          /\ (pc[c] = "panicked" \/ sc[c].why \in {"panic", "abort"}) =>
                ~Sends(calls[c], "content.write:commit")

\* A load_modules run ended by the panic of its save_content, the daemon
\* having reported more bytes than the artifact has.
C28_Witness ==
    /\ OffsetOutOfRange /\ IsLoad
    /\ last.stat.offset > Len(last.data)
    /\ last.res.err.variant = "panic"
    /\ pc[last.client] = "panicked"

\* The same for a negative offset.
C28_WitnessNegative ==
    /\ OffsetOutOfRange
    /\ last.stat.offset < 0
    /\ last.res.err.variant = "panic"

\* ------------------------------------------------------------------- C29
\* The write phase of a run: from the lease request of its save_content to
\* the drop of the guard that save_content returned.
InWritePhase(c) ==
    /\ lm[c].engine # NoEngine
    /\ \/ sc[c].lease_id # <<>>
       \/ lm[c].precompiled_content.lease_id # <<>>

\* The lease id of a run: "precompile-" and the cache key of its engine.
RunLease(c) == <<"precompile-">> \o EngineKey(lm[c].engine)

\* The write reference and the lease of every save_content of load_modules
\* are those of the engine, whatever the image and the artifact.
C29_Reference ==
    \A c \in Clients :
       /\ sc[c].caller = "load_modules" =>
             /\ sc[c].reference = RunLease(c)
             /\ sc[c].lease_id \in {<<>>, RunLease(c)}
       /\ lm[c].precompiled_content.lease_id \in {<<>>, RunLease(c)}

\* Runs of the same engine are never in their write phases together.
C29_OneWriter ==
    \A c, d \in Clients :
       (c # d /\ InWritePhase(c) /\ InWritePhase(d)) =>
           lm[c].engine.name # lm[d].engine.name

\* A run whose lease request found the lease held returns an error after
\* that request, having sent no label update.
C29_Refused ==
    (IsLoad /\ last.held) =>
        /\ ~last.res.ok
        /\ last.why \in {"lease_exists", "transport"}
        /\ Kinds(last.calls)[Len(last.calls)] = "leases.create"
        /\ ~Sends(last.calls, "images.update")
        /\ ~Sends(last.calls, "content.update")

\* The step that refuses the lease of run c changes no record of the daemon
\* and nothing of the other runs.
C29_RefusalStep ==
    \A c \in Clients :
       (/\ pc[c] = "sc_lease"
        /\ sc[c].caller = "load_modules"
        /\ sc[c].reference \in leases
        /\ pc'[c] # pc[c]) =>
           /\ pc'[c] = "idle"
           /\ images' = images
           /\ contentLabels' = contentLabels
           /\ store' = store
           /\ leases' = leases
           /\ \A d \in Clients \ {c} :
                  /\ pc'[d] = pc[d]
                  /\ lm'[d] = lm[d]
                  /\ sc'[d] = sc[d]
                  /\ guards'[d] = guards[d]

\* C29: the lease id and write reference of a precompile write is
\* "precompile-" and the cache key, whatever the image and the artifact; of
\* two runs of the same engine for different images whose write phases
\* overlap, the later returns an error having updated no label, and the
\* earlier is unaffected.
C29_LeaseContention ==
    [][C29_RefusalStep /\ C29_Reference' /\ C29_OneWriter' /\ C29_Refused']_vars

\* The run of the second shim, for the other image, was refused the lease
\* that the run of the first shim holds for another artifact.
C29_Witness ==
    /\ IsLoad
    /\ last.held
    /\ last.why = "lease_exists"
    /\ last.run.container = OtherContainerId
    /\ InWritePhase(1)
    /\ lm[1].container_image # last.run.container_image
    /\ lm[1].precompiled # last.run.precompiled
    /\ RunLease(1) \in leases

\* ------------------------------------------------------------------- C30
\* The positions of save_content inside its async block, where the channel
\* and its sender exist.
InBlock == {"sc_write", "sc_stat_resp", "sc_commit_resp"}

\* The channel never holds more than its capacity; it is empty when the
\* commit request is about to be sent, the stat request having been taken;
\* the sender is alive at every position of the block and nowhere else.
C30_Channel ==
    \A c \in Clients :
       /\ Len(sc[c].chan) <= ChannelCapacity
       /\ pc[c] = "sc_lease" => sc[c].chan = <<>>
       /\ pc[c] = "sc_write" =>
              /\ Len(sc[c].chan) = 1
              /\ sc[c].chan[1].action = "Stat"
              /\ ~Sends(calls[c], "content.write:stat")
       /\ pc[c] = "sc_stat_resp" =>
              /\ sc[c].chan = <<>>
              /\ Sends(calls[c], "content.write:stat")
       /\ pc[c] = "sc_commit_resp" =>
              /\ Len(sc[c].chan) = 1
              /\ sc[c].chan[1].action = "Commit"
              /\ sc[c].stat.present
              /\ ~sc[c].resp.present
       /\ sc[c].tx <=> pc[c] \in InBlock

\* A send finds the channel empty, and the sender goes only as the block is
\* left: with the commit response read, with an error, with the answer
\* AlreadyExists to the opening of the stream, or unwinding.
C30_Sends ==
    \A c \in Clients :
       /\ Len(sc'[c].chan) > Len(sc[c].chan) =>
              /\ sc[c].chan = <<>>
              /\ Len(sc'[c].chan) = 1
              /\ sc'[c].tx
       /\ (sc[c].tx /\ ~sc'[c].tx) =>
              \/ pc'[c] = "sc_drop" /\ ~sc'[c].ret.ok
              \/ pc[c] = "sc_commit_resp" /\ pc'[c] # "sc_drop"
                 /\ Sends(calls'[c] \o last'.calls, "content.write:commit")
              \/ pc[c] = "sc_write" /\ IsSave' /\ last'.why = "exists"
              \/ pc[c] = "sc_write" /\ sc[c].caller = "load_modules"
                 /\ pc'[c] = "lm_update_image"
                 /\ MapHas(store, sc[c].expected)
              \/ last'.res.err.variant = "panic"

\* C30: the request channel of save_content, of capacity 1, never holds
\* more than one unsent request and neither send can block: the stat
\* request is queued into the empty channel before the stream is opened,
\* the commit request only after the stat response was received, the stat
\* request taken; the sender lives until the commit response has been read
\* or the function returns.
C30_ChannelCapacity == [][C30_Sends /\ C30_Channel']_vars

\* The commit request sits in the channel, sent after the stat response,
\* the sender alive.
C30_Witness ==
    \E c \in Clients :
       /\ pc[c] = "sc_commit_resp"
       /\ Len(sc[c].chan) = ChannelCapacity
       /\ sc[c].chan[1].action = "Commit"
       /\ sc[c].stat.present
       /\ sc[c].tx

\* A save_content returned Ok with the commit response read: both requests
\* went through the channel.
C30_WitnessDone ==
    /\ IsSave /\ last.res.ok
    /\ last.resp.present
    /\ Kinds(last.calls) = WriteOrder

\* ------------------------------------------------------------------- C31
IsComponents == last.res.op = "load_components"

\* The positions of a load_components between its requests.
LCPositions == {"lc_get_image", "lc_read_manifest", "lc_read_config", "lc_fetch"}

\* The requests of a load_components of frame f, as far as trace goes: the
\* container, its image, the manifest, the config, then the supported
\* layers of the manifest in its order; nothing else.
ReadOnlyTrace(trace, f) ==
    LET supported == SupportedLayers(f.manifest, f.engine)
    IN  /\ Len(trace) >= 1 => trace[1] = Call("containers.get", f.container)
        /\ Len(trace) >= 2 =>
               trace[2] = Call("images.get", ContainerImage(f.container))
        /\ Len(trace) >= 3 => trace[3] = Call("content.read", f.image_digest)
        /\ Len(trace) >= 4 =>
               trace[4] = Call("content.read", f.manifest.config.digest)
        /\ Len(trace) <= 4 + Len(supported)
        /\ \A k \in 5..Len(trace) :
               trace[k] = Call("content.read", supported[k - 4].digest)

\* The frame of a load_components never holds the outcome of a cache
\* lookup, a compiled artifact or a written content.
NoCacheUse(f) ==
    /\ f.lookup = "none"
    /\ f.precompiled = <<>>
    /\ f.precompiled_content = NoWriteContent
    /\ f.image_content = NoInfo

\* The step is one of the load_components of client c.
ComponentsActs(c) ==
    \/ pc[c] \in LCPositions /\ calls'[c] # calls[c]
    \/ pc[c] = "idle" /\ pc'[c] \in LCPositions
    \/ pc[c] \in LCPositions \cup {"idle"} /\ IsComponents'
       /\ last'.client = c /\ last' # last

\* A running load_components has sent only its reads, and its result is
\* the supported layers in manifest order, each with its own descriptor, or
\* an error with no layer.
C31_Result ==
    /\ \A c \in Clients :
          pc[c] \in LCPositions =>
             /\ ReadOnlyTrace(calls[c], lm[c])
             /\ NoCacheUse(lm[c])
             /\ sc[c] = NoFrame
    /\ IsComponents =>
          LET f == last.run
              supported == SupportedLayers(f.manifest, f.engine)
          IN  /\ ReadOnlyTrace(last.calls, f)
              /\ NoCacheUse(f)
              /\ IF ~last.res.ok
                 THEN last.res.layers = <<>>
                 ELSE IF ~IsWasm(last.res.platform)
                 THEN /\ last.res.layers = <<>>
                      /\ Len(last.calls) = 4
                 ELSE /\ Len(last.calls) = 4 + Len(supported)
                      /\ Len(last.res.layers) = Len(supported)
                      /\ \A i \in 1..Len(supported) :
                             /\ last.res.layers[i].config = supported[i]
                             /\ last.res.layers[i].layer = f.layers[i]
                             /\ ContentDigest(f.layers[i]) =
                                    supported[i].digest

\* A step of load_components changes nothing of the daemon and holds no
\* lease; a supported layer that is not in the store ends the call with an
\* error.
C31_Step ==
    \A c \in Clients :
       ComponentsActs(c) =>
          /\ UNCHANGED <<store, contentLabels, images, leases, ingest, sc,
                         guards, saved, known>>
          /\ pc[c] = "lc_fetch" =>
                LET supported == SupportedLayers(lm[c].manifest, lm[c].engine)
                    cfg == supported[Len(lm[c].layers) + 1]
                IN  ~MapHas(store, cfg.digest) =>
                       /\ IsComponents'
                       /\ ~last'.res.ok
                       /\ last'.res.layers = <<>>
                       /\ pc'[c] = "idle"

\* C31: load_components is read-only with respect to the store: it never
\* consults the precompile cache label, never calls precompile, never
\* creates a lease or writes content and never updates a label; for a wasm
\* image it returns the supported layers in manifest order, each paired
\* with its own descriptor, and fails as a whole if a supported layer
\* cannot be read.
C31_ReadOnly == [][C31_Step /\ C31_Result']_vars

\* Two layers came back, each with its own descriptor, for an image whose
\* cache label of this engine names an artifact that is in the store.
C31_Witness ==
    /\ IsComponents /\ last.res.ok
    /\ Len(last.res.layers) >= 2
    /\ last.res.layers[1].config # last.res.layers[2].config
    /\ LET id == PrecompileId(last.run.engine)
       IN  /\ CacheLabelled(last.run.image.labels, id[1], id[2])
           /\ MapHas(store, MapGet(last.run.image.labels, id[2]))

\* The second supported layer was not in the store: an error, the first
\* layer not returned.
C31_WitnessFails ==
    /\ IsComponents /\ ~last.res.ok
    /\ last.why = "read"
    /\ Len(last.run.layers) >= 1
    /\ ~MapHas(store, last.run.fetched[Len(last.run.fetched)])

====
